---- MODULE Spec2Model ----
(***************************************************************************)
(* A model of ryxu-xo-lavalink-encoder: the track encoder (TrackEncoder),  *)
(* the Discord encoder (DiscordTrackEncoder) and the facade that owns them *)
(* (LavalinkEncoder).  The state is the options object of every encoder    *)
(* the facade constructs, plus the last call made on the facade and what   *)
(* it returned or threw.                                                   *)
(***************************************************************************)
EXTENDS Integers, Sequences, FiniteSets, TLC

(***************************************************************************)
(* JavaScript values.  Every primitive is a record of one shape, so that   *)
(* values of different JavaScript types can be compared: t is the type     *)
(* tag, n the integer part of a number (1/0 for a boolean), s the text of  *)
(* a string (for a number: "" for an integer, ".5" for n + 0.5, "NaN").    *)
(* An object is a function from its own keys to values; Ref(s) stands for  *)
(* a nested object held as a property (the requester of a Discord track).  *)
(***************************************************************************)
JSVal(t, n, s) == [t |-> t, n |-> n, s |-> s]

Undefined == JSVal("undefined", 0, "")

Null == JSVal("null", 0, "")

Bool(b) == JSVal("boolean", IF b THEN 1 ELSE 0, "")

Num(n) == JSVal("number", n, "")

Frac(n) == JSVal("number", n, ".5")

NaN == JSVal("number", 0, "NaN")

Str(s) == JSVal("string", 0, s)

Ref(s) == JSVal("object", 0, s)

\* typeof v
TypeOf(v) == IF v.t = "null" THEN "object" ELSE v.t

\* ToBoolean(v): what !v, v && x and v || x test
Truthy(v) ==
    CASE v.t = "boolean" -> v.n = 1
      [] v.t = "number"  -> v.s # "NaN" /\ (v.n # 0 \/ v.s = ".5")
      [] v.t = "string"  -> v.s # ""
      [] v.t = "object"  -> TRUE
      [] OTHER           -> FALSE

\* v < 0 for a number v (NaN compares false with everything)
LessThanZero(v) == v.t = "number" /\ v.s # "NaN" /\ v.n < 0

\* o.k: the property, or undefined when o has no such key
Get(o, k) == IF k \in DOMAIN o THEN o[k] ELSE Undefined

\* a ?? b in place of a || b: an empty string is kept
NullishOr(a, b) == IF a.t \in {"undefined", "null"} THEN b ELSE a

\* a || b
OrElse(a, b) == IF Truthy(a) THEN a ELSE b

\* { ...a, ...b } on objects
Spread(a, b) ==
    [k \in (DOMAIN a) \cup (DOMAIN b) |-> IF k \in DOMAIN b THEN b[k] ELSE a[k]]

(***************************************************************************)
(* JSON text.  A text is a sequence of symbols: punctuation, a string      *)
(* literal, a number literal, one of true/false/null, the text of a nested *)
(* object, or characters that belong to no JSON token ("junk").            *)
(***************************************************************************)
Lex(k, n, s) == [k |-> k, n |-> n, s |-> s]

Punct(s) == Lex("punct", 0, s)

LStr(s) == Lex("str", 0, s)

LNum(n, s) == Lex("num", n, s)

LLit(s) == Lex("lit", 0, s)

LObj(s) == Lex("obj", 0, s)

LJunk(s) == Lex("junk", 0, s)

\* JSON.stringify of one property value; <<>> for a value JSON leaves out
SerializeValue(v) ==
    CASE v.t = "undefined" -> <<>>
      [] v.t = "null"      -> <<LLit("null")>>
      [] v.t = "boolean"   -> <<LLit(IF v.n = 1 THEN "true" ELSE "false")>>
      [] v.t = "number"    -> IF v.s = "NaN" THEN <<LLit("null")>> ELSE <<LNum(v.n, v.s)>>
      [] v.t = "string"    -> <<LStr(v.s)>>
      [] v.t = "object"    -> <<LObj(v.s)>>

RECURSIVE SerializeMembers(_, _)
\* the members of an object literal in insertion order, comma separated;
\* a member whose value is undefined is left out
SerializeMembers(members, started) ==
    IF members = <<>> THEN <<>>
    ELSE LET key == Head(members)[1]
             val == SerializeValue(Head(members)[2])
         IN  IF val = <<>> THEN SerializeMembers(Tail(members), started)
             ELSE (IF started THEN <<Punct(",")>> ELSE <<>>)
                  \o <<LStr(key), Punct(":")>> \o val
                  \o SerializeMembers(Tail(members), TRUE)

\* JSON.stringify(data) for an object given as its <<key, value>> members
JSONstringify(members) ==
    <<Punct("{")>> \o SerializeMembers(members, FALSE) \o <<Punct("}")>>

\* what JSON.parse returns: an object, an array or a primitive
ObjectValue(o) == [k |-> "object", v |-> Undefined, o |-> o, a |-> <<>>]

ArrayValue(a) == [k |-> "array", v |-> Undefined, o |-> <<>>, a |-> a]

PrimValue(v) == [k |-> "prim", v |-> v, o |-> <<>>, a |-> <<>>]

IsValueLex(l) == l.k \in {"str", "num", "lit", "obj"}

ParseValueLex(l) ==
    CASE l.k = "str" -> Str(l.s)
      [] l.k = "num" -> JSVal("number", l.n, l.s)
      [] l.k = "obj" -> Ref(l.s)
      [] l.k = "lit" -> IF l.s = "null" THEN Null ELSE Bool(l.s = "true")

\* inner is the text between the braces: key : value , key : value ...
MembersWellFormed(inner) ==
    /\ Len(inner) % 4 = 3
    /\ \A i \in 1..Len(inner) :
          CASE i % 4 = 1 -> inner[i].k = "str"
            [] i % 4 = 2 -> inner[i] = Punct(":")
            [] i % 4 = 3 -> IsValueLex(inner[i])
            [] OTHER     -> inner[i] = Punct(",")

ParseMembers(inner) ==
    LET keys == {inner[i].s : i \in {j \in 1..Len(inner) : j % 4 = 1}}
        last(key) == CHOOSE i \in 1..Len(inner) :
                        /\ i % 4 = 1 /\ inner[i].s = key
                        /\ \A j \in 1..Len(inner) :
                              (j % 4 = 1 /\ inner[j].s = key) => j <= i
    IN  [key \in keys |-> ParseValueLex(inner[last(key) + 2])]

ElementsWellFormed(inner) ==
    /\ Len(inner) % 2 = 1
    /\ \A i \in 1..Len(inner) :
          IF i % 2 = 1 THEN IsValueLex(inner[i]) ELSE inner[i] = Punct(",")

\* JSON.parse(text): ok = FALSE stands for the SyntaxError it throws.  The
\* texts of this model hold no object or array nested as literal text.
JSONparse(text) ==
    LET n     == Len(text)
        inner == SubSeq(text, 2, n - 1)
        fail  == [ok |-> FALSE, val |-> PrimValue(Undefined)]
    IN  IF n = 0 THEN fail
        ELSE IF n = 1
        THEN IF IsValueLex(text[1])
             THEN [ok |-> TRUE, val |-> PrimValue(ParseValueLex(text[1]))]
             ELSE fail
        ELSE IF text[1] = Punct("{") /\ text[n] = Punct("}")
        THEN IF inner = <<>> THEN [ok |-> TRUE, val |-> ObjectValue(<<>>)]
             ELSE IF MembersWellFormed(inner)
             THEN [ok |-> TRUE, val |-> ObjectValue(ParseMembers(inner))]
             ELSE fail
        ELSE IF text[1] = Punct("[") /\ text[n] = Punct("]")
        THEN IF inner = <<>> THEN [ok |-> TRUE, val |-> ArrayValue(<<>>)]
             ELSE IF ElementsWellFormed(inner)
             THEN [ok |-> TRUE,
                   val |-> ArrayValue([i \in 1..((Len(inner) + 1) \div 2) |->
                                          ParseValueLex(inner[2 * i - 1])])]
             ELSE fail
        ELSE fail

(***************************************************************************)
(* TextEncoder / TextDecoder.  The characters of a JSON text are the       *)
(* symbols above; the text is encoded one byte per symbol, the byte being  *)
(* the symbol's place in Symbols.  A byte that is no symbol's code decodes *)
(* to a character that is part of no JSON token.                           *)
(***************************************************************************)
Symbols ==
    << Punct("{"), Punct("}"), Punct(":"), Punct(","), Punct("["), Punct("]"),
       LLit("true"), LLit("false"), LLit("null"),
       LStr("identifier"), LStr("isSeekable"), LStr("author"), LStr("length"),
       LStr("isStream"), LStr("position"), LStr("title"), LStr("uri"),
       LStr("sourceName"), LStr("artworkUrl"), LStr("isrc"),
       LStr("requester"), LStr("guildId"), LStr("channelId"),
       LStr(""), LStr("dQw4w9WgXcQ"), LStr("Never Gonna Give You Up"),
       LStr("Rick Astley"), LStr("https://www.youtube.com/watch?v=dQw4w9WgXcQ"),
       LStr("youtube"), LStr("unknown"), LStr("custom"),
       LStr("https://i.ytimg.com/vi/dQw4w9WgXcQ/maxresdefault.jpg"),
       LStr("GBUM71202978"), LStr("212000"),
       LStr("987654321098765432"), LStr("111111111111111111"),
       LObj("MusicLover"),
       LNum(0, ""), LNum(212000, ""), LNum(-1, ""), LNum(1, ".5"), LNum(-1, ".5"),
       LJunk("test"),
       LStr("9bZkp7q19f0"), LStr("PSY - GANGNAM STYLE"), LStr("officialpsy"),
       LStr("https://www.youtube.com/watch?v=9bZkp7q19f0"), LNum(252000, ""),
       LNum(1, ""), LNum(2, ""), LNum(3, ""), LNum(4, ""), LNum(5, ""), LNum(6, ""),
       LStr("spotify"), LStr("4PTG3Z6ehGkBFwjybzWkR8"),
       LStr("https://open.spotify.com/track/4PTG3Z6ehGkBFwjybzWkR8") >>

TextEncode(text) ==
    [i \in 1..Len(text) |-> CHOOSE b \in 1..Len(Symbols) : Symbols[b] = text[i]]

TextDecode(bytes) ==
    [i \in 1..Len(bytes) |->
        IF bytes[i] \in 1..Len(Symbols) THEN Symbols[bytes[i]] ELSE LJunk("?")]

(***************************************************************************)
(* base64-js.  A token is a sequence of characters: 0..63 is a character   *)
(* of the alphabet (its value), PadChar is "=", and BadChar is a character *)
(* outside the alphabet.                                                   *)
(***************************************************************************)
PadChar == 64

BadChar == 65

RECURSIVE EncodeChunk(_)
\* base64.fromByteArray: three bytes to four characters, then the rest
\* with "==" (one byte left) or "=" (two bytes left)
EncodeChunk(bytes) ==
    IF Len(bytes) >= 3
    THEN LET num == bytes[1] * 65536 + bytes[2] * 256 + bytes[3]
         IN  << (num \div 262144) % 64, (num \div 4096) % 64,
                (num \div 64) % 64, num % 64 >>
             \o EncodeChunk(SubSeq(bytes, 4, Len(bytes)))
    ELSE IF Len(bytes) = 1
    THEN << bytes[1] \div 4, (bytes[1] * 16) % 64, PadChar, PadChar >>
    ELSE IF Len(bytes) = 2
    THEN LET tmp == bytes[1] * 256 + bytes[2]
         IN  << tmp \div 1024, (tmp \div 16) % 64, (tmp * 4) % 64, PadChar >>
    ELSE <<>>

\* fromByteArray without the "=" padding
fromByteArrayUnpadded(bytes) == SelectSeq(EncodeChunk(bytes), LAMBDA c : c # PadChar)

fromByteArray(bytes) == EncodeChunk(bytes)

\* revLookup[c] inside a bit operation: a character outside the alphabet
\* (and "=") looks up undefined, which the shifts read as 0
RevLookup(c) == IF c \in 0..63 THEN c ELSE 0

\* getLens: validLen is the place of the first "=" (the length when there
\* is none); the text after the first "=" is not looked at
ValidLen(b64) ==
    LET pads == {i \in 1..Len(b64) : b64[i] = PadChar}
    IN  IF pads = {} THEN Len(b64)
        ELSE (CHOOSE i \in pads : \A j \in pads : i <= j) - 1

PlaceHoldersLen(b64, validLen) ==
    IF validLen = Len(b64) THEN 0 ELSE 4 - (validLen % 4)

\* _byteLength
ByteLength(validLen, placeHoldersLen) ==
    (((validLen + placeHoldersLen) * 3) \div 4) - placeHoldersLen

RECURSIVE DecodeQuads(_, _, _)
\* the loop of toByteArray: for (i = 0; i < len; i += 4), three bytes a turn
DecodeQuads(b64, i, len) ==
    IF i >= len THEN <<>>
    ELSE LET tmp == RevLookup(b64[i + 1]) * 262144 + RevLookup(b64[i + 2]) * 4096
                    + RevLookup(b64[i + 3]) * 64 + RevLookup(b64[i + 4])
         IN  << (tmp \div 65536) % 256, (tmp \div 256) % 256, tmp % 256 >>
             \o DecodeQuads(b64, i + 4, len)

\* base64.toByteArray(b64): ok = FALSE stands for the Error it throws
toByteArray(b64) ==
    IF Len(b64) % 4 > 0
    THEN [ok |-> FALSE, bytes |-> <<>>,
          error |-> "Invalid string. Length must be a multiple of 4"]
    ELSE
      LET validLen == ValidLen(b64)
          ph   == PlaceHoldersLen(b64, validLen)
          size == ByteLength(validLen, ph)
          len  == IF ph > 0 THEN validLen - 4 ELSE validLen
          i    == IF len <= 0 THEN 0 ELSE 4 * ((len + 3) \div 4)
          body == DecodeQuads(b64, 0, len)
          rest == IF ph = 2
                  THEN << (RevLookup(b64[i + 1]) * 4
                           + (RevLookup(b64[i + 2]) \div 16)) % 256 >>
                  ELSE IF ph = 1
                  THEN LET tmp == RevLookup(b64[i + 1]) * 1024
                                  + RevLookup(b64[i + 2]) * 16
                                  + (RevLookup(b64[i + 3]) \div 4)
                       IN  << (tmp \div 256) % 256, tmp % 256 >>
                  ELSE <<>>
          all  == body \o rest \o <<0, 0, 0>>
      IN  IF size < 0
          THEN [ok |-> FALSE, bytes |-> <<>>, error |-> "Invalid typed array length: -1"]
          ELSE [ok |-> TRUE, bytes |-> SubSeq(all, 1, size), error |-> ""]

(***************************************************************************)
(* TrackEncoder                                                            *)
(***************************************************************************)
\* options.k ?? dflt
Nullish(options, k, dflt) == IF k \in DOMAIN options THEN options[k] ELSE dflt

\* new TrackEncoder(options)
NewTrackEncoder(options) ==
    [options |->
        [includeArtwork |-> Nullish(options, "includeArtwork", TRUE),
         includeISRC    |-> Nullish(options, "includeISRC", TRUE),
         sourceName     |-> Nullish(options, "sourceName", "unknown"),
         validate       |-> Nullish(options, "validate", TRUE)]]

\* validateTrackInfo with the title checked before the identifier
validateTrackInfoTitleFirst(trackInfo) ==
    IF ~Truthy(Get(trackInfo, "title")) THEN "Track title is required"
    ELSE IF ~Truthy(Get(trackInfo, "identifier")) THEN "Track identifier is required"
    ELSE IF ~Truthy(Get(trackInfo, "author")) THEN "Track author is required"
    ELSE IF \/ TypeOf(Get(trackInfo, "length")) # "number"
            \/ LessThanZero(Get(trackInfo, "length"))
    THEN "Track length must be a non-negative number"
    ELSE IF ~Truthy(Get(trackInfo, "uri")) THEN "Track URI is required"
    ELSE ""

\* validateTrackInfo with length <= 0 in place of length < 0
validateTrackInfoPositiveLength(trackInfo) ==
    IF ~Truthy(Get(trackInfo, "identifier")) THEN "Track identifier is required"
    ELSE IF ~Truthy(Get(trackInfo, "title")) THEN "Track title is required"
    ELSE IF ~Truthy(Get(trackInfo, "author")) THEN "Track author is required"
    ELSE IF \/ TypeOf(Get(trackInfo, "length")) # "number"
            \/ LessThanZero(Get(trackInfo, "length"))
            \/ Get(trackInfo, "length") = Num(0)
    THEN "Track length must be a non-negative number"
    ELSE IF ~Truthy(Get(trackInfo, "uri")) THEN "Track URI is required"
    ELSE ""

\* TrackEncoder.validateTrackInfo: the message of the Error it throws, or ""
validateTrackInfo(trackInfo) ==
    IF ~Truthy(Get(trackInfo, "identifier")) THEN "Track identifier is required"
    ELSE IF ~Truthy(Get(trackInfo, "title")) THEN "Track title is required"
    ELSE IF ~Truthy(Get(trackInfo, "author")) THEN "Track author is required"
    ELSE IF \/ TypeOf(Get(trackInfo, "length")) # "number"
            \/ LessThanZero(Get(trackInfo, "length"))
    THEN "Track length must be a non-negative number"
    ELSE IF ~Truthy(Get(trackInfo, "uri")) THEN "Track URI is required"
    ELSE ""

\* the order in which a spread of a record lists its properties
PropertyOrder ==
    <<"identifier", "isSeekable", "author", "length", "isStream", "position",
      "title", "uri", "sourceName", "artworkUrl", "isrc", "requester", "guildId",
      "channelId">>

\* trackData built as { ...trackInfo, sourceName: ... }: every property of
\* the record goes into the token
trackDataSpread(options, trackInfo) ==
    LET own == SelectSeq(PropertyOrder, LAMBDA k : k \in DOMAIN trackInfo)
    IN  [i \in 1..Len(own) |->
            <<own[i], IF own[i] = "sourceName"
                      THEN OrElse(trackInfo[own[i]], Str(options.sourceName))
                      ELSE trackInfo[own[i]]>>]

\* trackData with the artworkUrl included whatever includeArtwork says
trackDataAlwaysArtwork(options, trackInfo) ==
    << <<"identifier", Get(trackInfo, "identifier")>>,
       <<"isSeekable", Get(trackInfo, "isSeekable")>>,
       <<"author", Get(trackInfo, "author")>>,
       <<"length", Get(trackInfo, "length")>>,
       <<"isStream", Get(trackInfo, "isStream")>>,
       <<"position", Get(trackInfo, "position")>>,
       <<"title", Get(trackInfo, "title")>>,
       <<"uri", Get(trackInfo, "uri")>>,
       <<"sourceName", OrElse(Get(trackInfo, "sourceName"), Str(options.sourceName))>> >>
    \o (IF Truthy(Get(trackInfo, "artworkUrl"))
        THEN << <<"artworkUrl", Get(trackInfo, "artworkUrl")>> >> ELSE <<>>)
    \o (IF options.includeISRC /\ Truthy(Get(trackInfo, "isrc"))
        THEN << <<"isrc", Get(trackInfo, "isrc")>> >> ELSE <<>>)

\* the object literal trackData of encodeTrack, as its members in order
trackData(options, trackInfo) ==
    << <<"identifier", Get(trackInfo, "identifier")>>,
       <<"isSeekable", Get(trackInfo, "isSeekable")>>,
       <<"author", Get(trackInfo, "author")>>,
       <<"length", Get(trackInfo, "length")>>,
       <<"isStream", Get(trackInfo, "isStream")>>,
       <<"position", Get(trackInfo, "position")>>,
       <<"title", Get(trackInfo, "title")>>,
       <<"uri", Get(trackInfo, "uri")>>,
       <<"sourceName", OrElse(Get(trackInfo, "sourceName"), Str(options.sourceName))>> >>
    \o (IF options.includeArtwork /\ Truthy(Get(trackInfo, "artworkUrl"))
        THEN << <<"artworkUrl", Get(trackInfo, "artworkUrl")>> >> ELSE <<>>)
    \o (IF options.includeISRC /\ Truthy(Get(trackInfo, "isrc"))
        THEN << <<"isrc", Get(trackInfo, "isrc")>> >> ELSE <<>>)

\* TrackEncoder.encodeTrackData
encodeTrackData(data) == fromByteArray(TextEncode(JSONstringify(data)))

\* TrackEncoder.decodeTrackData: ok = FALSE stands for the error thrown
decodeTrackData(encoded) ==
    LET b == toByteArray(encoded)
    IN  IF ~b.ok THEN [ok |-> FALSE, val |-> PrimValue(Undefined), error |-> b.error]
        ELSE LET parsed == JSONparse(TextDecode(b.bytes))
             IN  IF parsed.ok THEN [ok |-> TRUE, val |-> parsed.val, error |-> ""]
                 ELSE [ok |-> FALSE, val |-> PrimValue(Undefined),
                       error |-> "Unexpected token in JSON"]

\* what a call gives back: status is "return" or "throw" ("none" before any
\* call and after a call that returns nothing)
Returned(track, info, value) ==
    [status |-> "return", track |-> track, info |-> info, value |-> value, error |-> ""]

Thrown(message) ==
    [status |-> "throw", track |-> <<>>, info |-> <<>>,
     value |-> PrimValue(Undefined), error |-> message]

Nothing ==
    [status |-> "none", track |-> <<>>, info |-> <<>>,
     value |-> PrimValue(Undefined), error |-> ""]

\* encodeTrack validating whatever the validate option says
encodeTrackAlwaysValidating(encoder, trackInfo) ==
    IF validateTrackInfo(trackInfo) # ""
    THEN Thrown(validateTrackInfo(trackInfo))
    ELSE Returned(encodeTrackData(trackData(encoder.options, trackInfo)),
                  trackInfo, PrimValue(Undefined))

\* encodeTrack returning the object it encoded in place of the caller's
encodeTrackReturningData(encoder, trackInfo) ==
    IF encoder.options.validate /\ validateTrackInfo(trackInfo) # ""
    THEN Thrown(validateTrackInfo(trackInfo))
    ELSE Returned(encodeTrackData(trackData(encoder.options, trackInfo)),
                  decodeTrackData(
                      encodeTrackData(trackData(encoder.options, trackInfo))).val.o,
                  PrimValue(Undefined))

\* TrackEncoder.encodeTrack
encodeTrack(encoder, trackInfo) ==
    IF encoder.options.validate /\ validateTrackInfo(trackInfo) # ""
    THEN Thrown(validateTrackInfo(trackInfo))
    ELSE Returned(encodeTrackData(trackData(encoder.options, trackInfo)),
                  trackInfo, PrimValue(Undefined))

\* decodeTrack refusing an object without an identifier
decodeTrackRequiringFields(encodedTrack) ==
    LET decoded == decodeTrackData(encodedTrack)
    IN  IF ~decoded.ok THEN Thrown("Failed to decode track: " \o decoded.error)
        ELSE IF decoded.val.k = "object" /\ "identifier" \notin DOMAIN decoded.val.o
        THEN Thrown("Failed to decode track: Track identifier is required")
        ELSE Returned(<<>>, <<>>, decoded.val)

\* TrackEncoder.decodeTrack
decodeTrack(encodedTrack) ==
    LET decoded == decodeTrackData(encodedTrack)
    IN  IF decoded.ok THEN Returned(<<>>, <<>>, decoded.val)
        ELSE Thrown("Failed to decode track: " \o decoded.error)

\* updateOptions building the options anew: what it does not name goes back
\* to its default
TrackEncoder_updateOptionsAnew(encoder, options) ==
    [options |-> [includeArtwork |-> Nullish(options, "includeArtwork", TRUE),
                  includeISRC    |-> Nullish(options, "includeISRC", TRUE),
                  sourceName     |-> Nullish(options, "sourceName", "unknown"),
                  validate       |-> Nullish(options, "validate", TRUE)]]

\* TrackEncoder.updateOptions
TrackEncoder_updateOptions(encoder, options) ==
    [encoder EXCEPT !.options = Spread(encoder.options, options)]

(***************************************************************************)
(* PlaylistEncoder (its options and the TrackEncoder it owns)              *)
(***************************************************************************)
TrackOptionsOf(o) ==
    [includeArtwork |-> o.includeArtwork, includeISRC |-> o.includeISRC,
     sourceName |-> o.sourceName, validate |-> o.validate]

\* new PlaylistEncoder(options)
NewPlaylistEncoder(options) ==
    LET o == [includeArtwork  |-> Nullish(options, "includeArtwork", TRUE),
              includeISRC     |-> Nullish(options, "includeISRC", TRUE),
              sourceName      |-> Nullish(options, "sourceName", "unknown"),
              validate        |-> Nullish(options, "validate", TRUE),
              maxTracks       |-> Nullish(options, "maxTracks", 1000),
              includeMetadata |-> Nullish(options, "includeMetadata", TRUE)]
    IN  [options |-> o, trackEncoder |-> NewTrackEncoder(TrackOptionsOf(o))]

\* PlaylistEncoder.updateOptions
PlaylistEncoder_updateOptions(encoder, options) ==
    LET o == Spread(encoder.options, options)
    IN  [options |-> o,
         trackEncoder |-> TrackEncoder_updateOptions(encoder.trackEncoder,
                                                     TrackOptionsOf(o))]

\* ToNumber, the conversion Math.min applies to an argument: of a number
\* itself, of null 0, of a boolean 0 or 1, of a string the number it spells
\* ('' spells 0), of anything else NaN
ToNumber(v) ==
    CASE v.t = "number" -> v
      [] v.t = "null" -> Num(0)
      [] v.t = "boolean" -> Num(v.n)
      [] v.t = "string" -> IF v.s = "" THEN Num(0)
                           ELSE IF v.s = "0" THEN Num(0)
                           ELSE IF v.s = "1" THEN Num(1)
                           ELSE IF v.s = "2" THEN Num(2)
                           ELSE NaN
      [] OTHER -> NaN

\* Math.min replaced by its first argument: no clamp
MathMinFirst(a, b) == a

\* Math.min taken against the length, one more than the last index
MathMinLength(a, b) ==
    LET x == ToNumber(a)
    IN  IF x.s = "NaN" THEN NaN
        ELSE IF x.s = ".5" THEN (IF x.n < b + 1 THEN x ELSE Num(b + 1))
        ELSE IF x.n <= b + 1 THEN x ELSE Num(b + 1)

\* Math.min(a, b) for a value a and an integer b
MathMin(a, b) ==
    LET x == ToNumber(a)
    IN  IF x.s = "NaN" THEN NaN
        ELSE IF x.s = ".5" THEN (IF x.n < b THEN x ELSE Num(b))
        ELSE IF x.n <= b THEN x ELSE Num(b)

\* slice taking the element at end as well
SliceInclusive(array, start, end) ==
    LET n == Len(array)
        from == IF start < 0 THEN (IF n + start < 0 THEN 0 ELSE n + start)
                ELSE IF start > n THEN n ELSE start
        to == IF end + 1 < 0 THEN (IF n + end + 1 < 0 THEN 0 ELSE n + end + 1)
              ELSE IF end + 1 > n THEN n ELSE end + 1
    IN  IF from < to THEN SubSeq(array, from + 1, to) ELSE <<>>

\* slice counting its start from 1: the element at start is left out
SliceFromOne(array, start, end) ==
    LET n == Len(array)
        from == IF start + 1 < 0 THEN (IF n + start + 1 < 0 THEN 0 ELSE n + start + 1)
                ELSE IF start + 1 > n THEN n ELSE start + 1
        to == IF end < 0 THEN (IF n + end < 0 THEN 0 ELSE n + end)
              ELSE IF end > n THEN n ELSE end
    IN  IF from < to THEN SubSeq(array, from + 1, to) ELSE <<>>

\* array.slice(start, end)
Slice(array, start, end) ==
    LET n == Len(array)
        from == IF start < 0 THEN (IF n + start < 0 THEN 0 ELSE n + start)
                ELSE IF start > n THEN n ELSE start
        to == IF end < 0 THEN (IF n + end < 0 THEN 0 ELSE n + end)
              ELSE IF end > n THEN n ELSE end
    IN  IF from < to THEN SubSeq(array, from + 1, to) ELSE <<>>

\* validatePlaylistInfo testing the selectedTrack before the name
validatePlaylistInfoSelectedFirst(playlistInfo) ==
    IF \/ TypeOf(playlistInfo.selectedTrack) # "number"
       \/ LessThanZero(playlistInfo.selectedTrack)
    THEN "Selected track must be a non-negative number"
    ELSE IF playlistInfo.name = "" THEN "Playlist name is required"
    ELSE ""

\* PlaylistEncoder.validatePlaylistInfo: the message of the Error, or ""
validatePlaylistInfo(playlistInfo) ==
    IF playlistInfo.name = "" THEN "Playlist name is required"
    ELSE IF \/ TypeOf(playlistInfo.selectedTrack) # "number"
            \/ LessThanZero(playlistInfo.selectedTrack)
    THEN "Selected track must be a non-negative number"
    ELSE ""

\* PlaylistEncoder.validateTracks: the message of the Error, or ""; tracks is
\* an array
validateTracks(tracks) ==
    IF Len(tracks) = 0 THEN "Playlist must contain at least one track" ELSE ""

\* PlaylistEncoder.validateTracks: whether it writes its console.warn
Warns(options, tracks) == options.maxTracks > 0 /\ Len(tracks) > options.maxTracks

\* what encodePlaylist returns; warned tells whether console.warn was called
ReturnedPlaylist(playlist, warned) ==
    [status |-> "return", error |-> "", playlist |-> playlist, warned |-> warned]

RECURSIVE EncodeTracksValidatingAll(_, _)
\* the map of encodePlaylist validating the record of a track that carries
\* its token as well
EncodeTracksValidatingAll(trackEncoder, tracks) ==
    IF tracks = <<>> THEN [status |-> "return", error |-> "", tracks |-> <<>>]
    ELSE LET track == Head(tracks)
             encoded == encodeTrack(trackEncoder, track.info)
             rest == EncodeTracksValidatingAll(trackEncoder, Tail(tracks))
         IN  IF encoded.status = "throw"
             THEN [status |-> "throw", error |-> encoded.error, tracks |-> <<>>]
             ELSE IF rest.status = "throw" THEN rest
             ELSE IF track.track # <<>>
             THEN [rest EXCEPT !.tracks = <<track>> \o rest.tracks]
             ELSE [rest EXCEPT !.tracks =
                      <<[track |-> encoded.track, info |-> encoded.info]>> \o rest.tracks]

RECURSIVE EncodeTracks(_, _)
\* limitedTracks.map(...) of encodePlaylist: a track with a token is kept, a
\* track without one is encoded; the first Error thrown ends the map
EncodeTracks(trackEncoder, tracks) ==
    IF tracks = <<>> THEN [status |-> "return", error |-> "", tracks |-> <<>>]
    ELSE LET track == Head(tracks)
             encoded == encodeTrack(trackEncoder, track.info)
             rest == EncodeTracks(trackEncoder, Tail(tracks))
         IN  IF track.track # <<>>
             THEN IF rest.status = "throw" THEN rest
                  ELSE [rest EXCEPT !.tracks = <<track>> \o rest.tracks]
             ELSE IF encoded.status = "throw"
             THEN [status |-> "throw", error |-> encoded.error, tracks |-> <<>>]
             ELSE IF rest.status = "throw" THEN rest
             ELSE [rest EXCEPT !.tracks =
                      <<[track |-> encoded.track, info |-> encoded.info]>> \o rest.tracks]

\* PlaylistEncoder.encodePlaylist
encodePlaylist(encoder, playlistInfo, tracks) ==
    LET options == encoder.options
        invalid == IF ~options.validate THEN ""
                   ELSE IF validatePlaylistInfo(playlistInfo) # ""
                   THEN validatePlaylistInfo(playlistInfo)
                   ELSE validateTracks(tracks)
        limitedTracks == IF options.maxTracks > 0
                         THEN Slice(tracks, 0, options.maxTracks)
                         ELSE tracks
        encodedTracks == EncodeTracks(encoder.trackEncoder, limitedTracks)
    IN  IF invalid # "" THEN Thrown(invalid)
        ELSE IF encodedTracks.status = "throw" THEN Thrown(encodedTracks.error)
        ELSE ReturnedPlaylist(
                 [info |-> [name |-> playlistInfo.name,
                            selectedTrack |-> MathMin(playlistInfo.selectedTrack,
                                                      Len(encodedTracks.tracks) - 1)],
                  pluginInfo |-> <<>>,
                  tracks |-> encodedTracks.tracks],
                 options.validate /\ Warns(options, tracks))

\* PlaylistEncoder.createPlaylist; selectedTrack defaults to 0
createPlaylist(encoder, name, trackInfos, selectedTrack) ==
    encodePlaylist(encoder,
                   [name |-> name,
                    selectedTrack |-> IF selectedTrack = Undefined THEN Num(0)
                                      ELSE selectedTrack],
                   [i \in 1..Len(trackInfos) |-> [track |-> <<>>, info |-> trackInfos[i]]])

RECURSIVE AllTracksReversed(_)
\* allTracks with every playlist put in front of the ones before it
AllTracksReversed(playlists) ==
    IF playlists = <<>> THEN <<>>
    ELSE AllTracksReversed(Tail(playlists)) \o Head(playlists).tracks

RECURSIVE AllTracks(_)
\* allTracks of mergePlaylists
AllTracks(playlists) ==
    IF playlists = <<>> THEN <<>>
    ELSE Head(playlists).tracks \o AllTracks(Tail(playlists))

\* mergePlaylists taking the selectedTrack of the last playlist
mergePlaylistsLastSelected(encoder, playlists, newName) ==
    LET totalSelectedTrack == IF Len(playlists) > 0
                              THEN playlists[Len(playlists)].info.selectedTrack
                              ELSE Num(0)
        name == IF newName # "" THEN newName
                ELSE "Merged Playlist (" \o ToString(Len(playlists)) \o " playlists)"
    IN  encodePlaylist(encoder, [name |-> name, selectedTrack |-> totalSelectedTrack],
                       AllTracks(playlists))

\* PlaylistEncoder.mergePlaylists; newName is "" when it is left out
mergePlaylists(encoder, playlists, newName) ==
    LET totalSelectedTrack == IF Len(playlists) > 0
                              THEN playlists[1].info.selectedTrack
                              ELSE Num(0)
        name == IF newName # "" THEN newName
                ELSE "Merged Playlist (" \o ToString(Len(playlists)) \o " playlists)"
    IN  encodePlaylist(encoder, [name |-> name, selectedTrack |-> totalSelectedTrack],
                       AllTracks(playlists))

\* the part number counted from 0
PartNumberFromZero(i, chunkSize) ==
    IF chunkSize = 0 THEN "NaN"
    ELSE IF chunkSize < 0 THEN ToString((0 - i) \div (0 - chunkSize))
    ELSE ToString(i \div chunkSize)

\* Math.floor(i / chunkSize) + 1 as the template literal prints it; i is a
\* multiple of chunkSize, and 0 / 0 is NaN
PartNumber(i, chunkSize) ==
    IF chunkSize = 0 THEN "NaN"
    ELSE IF chunkSize < 0 THEN ToString(((0 - i) \div (0 - chunkSize)) + 1)
    ELSE ToString((i \div chunkSize) + 1)

\* PlaylistEncoder.splitPlaylist: the loop is about to test i < tracks.length
Splitting(i, chunks) == [status |-> "running", error |-> "", i |-> i, chunks |-> chunks]

ReturnedChunks(chunks) == [status |-> "return", error |-> "", chunks |-> chunks]

\* splitPlaylist handing the playlist's selectedTrack to every chunk
splitPlaylistStepSameSelected(encoder, playlist, chunkSize, i, chunks) ==
    LET chunk == encodePlaylist(encoder,
                     [name |-> playlist.info.name \o " (Part "
                                  \o PartNumber(i, chunkSize) \o ")",
                      selectedTrack |-> playlist.info.selectedTrack],
                     Slice(playlist.tracks, i, i + chunkSize))
    IN  IF ~(i < Len(playlist.tracks)) THEN ReturnedChunks(chunks)
        ELSE IF chunk.status = "throw" THEN chunk
        ELSE Splitting(i + chunkSize, Append(chunks, chunk.playlist))

\* splitPlaylist stepping over one track after every chunk
splitPlaylistStepSkipping(encoder, playlist, chunkSize, i, chunks) ==
    LET chunk == encodePlaylist(encoder,
                     [name |-> playlist.info.name \o " (Part "
                                  \o PartNumber(i, chunkSize) \o ")",
                      selectedTrack |-> IF i = 0 THEN playlist.info.selectedTrack
                                        ELSE Num(0)],
                     Slice(playlist.tracks, i, i + chunkSize))
    IN  IF ~(i < Len(playlist.tracks)) THEN ReturnedChunks(chunks)
        ELSE IF chunk.status = "throw" THEN chunk
        ELSE Splitting(i + chunkSize + 1, Append(chunks, chunk.playlist))

\* PlaylistEncoder.splitPlaylist: one pass of its for loop, from the test of
\* i < tracks.length to i += chunkSize
splitPlaylistStep(encoder, playlist, chunkSize, i, chunks) ==
    LET tracks == playlist.tracks
        chunkTracks == Slice(tracks, i, i + chunkSize)
        chunkName == playlist.info.name \o " (Part " \o PartNumber(i, chunkSize) \o ")"
        selectedTrack == IF i = 0 THEN playlist.info.selectedTrack ELSE Num(0)
        chunk == encodePlaylist(encoder,
                                [name |-> chunkName, selectedTrack |-> selectedTrack],
                                chunkTracks)
    IN  IF ~(i < Len(tracks)) THEN ReturnedChunks(chunks)
        ELSE IF chunk.status = "throw" THEN chunk
        ELSE Splitting(i + chunkSize, Append(chunks, chunk.playlist))

(***************************************************************************)
(* PlaylistEncoder on the heap: the arrays and the playlist objects that   *)
(* mergePlaylists and splitPlaylist read, create and write.  A heap is the *)
(* sequence of the objects created so far, a reference the place of an     *)
(* object in it.                                                           *)
(***************************************************************************)
\* an array of tracks
ArrayObject(items) ==
    [kind |-> "array", items |-> items, info |-> <<>>, pluginInfo |-> <<>>, tracks |-> 0]

\* a playlist { info, pluginInfo, tracks }; tracks refers to an array
PlaylistObject(info, pluginInfo, tracks) ==
    [kind |-> "playlist", items |-> <<>>, info |-> info, pluginInfo |-> pluginInfo,
     tracks |-> tracks]

\* the playlist a reference leads to, with the tracks its array holds
PlaylistValue(heap, playlist) ==
    [info |-> heap[playlist].info, pluginInfo |-> heap[playlist].pluginInfo,
     tracks |-> heap[heap[playlist].tracks].items]

\* how a call ends: the heap it leaves, and the playlists it returns
OnHeap(heap, status, error, refs) ==
    [status |-> status, error |-> error, heap |-> heap, refs |-> refs]

\* PlaylistEncoder.encodePlaylist: tracks.slice and limitedTracks.map each
\* create an array, the return statement creates the playlist
encodePlaylistOnHeap(heap, encoder, playlistInfo, tracks) ==
    LET given == heap[tracks].items
        returned == encodePlaylist(encoder, playlistInfo, given)
        rejected == /\ encoder.options.validate
                    /\ \/ validatePlaylistInfo(playlistInfo) # ""
                       \/ validateTracks(given) # ""
        limitedTracks == IF encoder.options.maxTracks > 0
                         THEN Append(heap, ArrayObject(
                                  Slice(given, 0, encoder.options.maxTracks)))
                         ELSE heap
        encodedTracks == Append(limitedTracks, ArrayObject(returned.playlist.tracks))
        playlist == Append(encodedTracks,
                           PlaylistObject(returned.playlist.info,
                                          returned.playlist.pluginInfo,
                                          Len(encodedTracks)))
    IN  IF rejected THEN OnHeap(heap, "throw", returned.error, <<>>)
        ELSE IF returned.status = "throw"
        THEN OnHeap(limitedTracks, "throw", returned.error, <<>>)
        ELSE OnHeap(playlist, "return", "", <<Len(playlist)>>)

\* mergePlaylists collecting the tracks in the array of the first playlist
mergePlaylistsOnHeapInPlace(heap, encoder, playlists, newName) ==
    LET values == [i \in 1..Len(playlists) |-> PlaylistValue(heap, playlists[i])]
        created == IF playlists = <<>> THEN Append(heap, ArrayObject(<<>>)) ELSE heap
        allTracks == IF playlists = <<>> THEN Len(created) ELSE heap[playlists[1]].tracks
        pushed == [created EXCEPT ![allTracks].items = @ \o AllTracks(values)]
        totalSelectedTrack == IF Len(playlists) > 0
                              THEN heap[playlists[1]].info.selectedTrack
                              ELSE Num(0)
        name == IF newName # "" THEN newName
                ELSE "Merged Playlist (" \o ToString(Len(playlists)) \o " playlists)"
    IN  encodePlaylistOnHeap(pushed, encoder,
                             [name |-> name, selectedTrack |-> totalSelectedTrack],
                             allTracks)

\* PlaylistEncoder.mergePlaylists: allTracks is a new array, which every
\* playlist's tracks are pushed to
mergePlaylistsOnHeap(heap, encoder, playlists, newName) ==
    LET values == [i \in 1..Len(playlists) |-> PlaylistValue(heap, playlists[i])]
        created == Append(heap, ArrayObject(<<>>))
        allTracks == Len(created)
        pushed == [created EXCEPT ![allTracks].items = @ \o AllTracks(values)]
        totalSelectedTrack == IF Len(playlists) > 0
                              THEN heap[playlists[1]].info.selectedTrack
                              ELSE Num(0)
        name == IF newName # "" THEN newName
                ELSE "Merged Playlist (" \o ToString(Len(playlists)) \o " playlists)"
    IN  encodePlaylistOnHeap(pushed, encoder,
                             [name |-> name, selectedTrack |-> totalSelectedTrack],
                             allTracks)

\* splitPlaylist on the heap: the loop is about to test i < tracks.length
SplittingOnHeap(heap, i, chunks) ==
    [status |-> "running", error |-> "", heap |-> heap, refs |-> chunks, i |-> i]

\* PlaylistEncoder.splitPlaylist: one pass of its for loop, which creates the
\* array of tracks.slice and what encodePlaylist creates; chunk is what the
\* one call of this.encodePlaylist gives
splitPlaylistStepOnHeap(heap, encoder, playlist, chunkSize, i, chunks) ==
    LET tracks == heap[heap[playlist].tracks].items
        chunkTracks == Append(heap, ArrayObject(Slice(tracks, i, i + chunkSize)))
        chunkName == heap[playlist].info.name \o " (Part "
                        \o PartNumber(i, chunkSize) \o ")"
        selectedTrack == IF i = 0 THEN heap[playlist].info.selectedTrack ELSE Num(0)
    IN  IF ~(i < Len(tracks)) THEN OnHeap(heap, "return", "", chunks)
        ELSE CHOOSE pushed \in
                 { IF chunk.status = "throw" THEN chunk
                   ELSE SplittingOnHeap(chunk.heap, i + chunkSize, chunks \o chunk.refs) :
                     chunk \in { encodePlaylistOnHeap(chunkTracks, encoder,
                                                      [name |-> chunkName,
                                                       selectedTrack |-> selectedTrack],
                                                      Len(chunkTracks)) } } : TRUE

(***************************************************************************)
(* DiscordTrackEncoder                                                     *)
(***************************************************************************)
\* new DiscordTrackEncoder(): it takes no options
NewDiscordTrackEncoder ==
    [trackEncoder |-> NewTrackEncoder(<<>>),
     playlistEncoder |-> NewPlaylistEncoder(<<>>)]

\* DiscordTrackEncoder.encodeDiscordTrack
encodeDiscordTrack(encoder, trackInfo, requester, guildId, channelId) ==
    LET discordTrackInfo ==
            Spread(trackInfo, [requester |-> requester, guildId |-> guildId,
                               channelId |-> channelId])
        encodedTrack == encodeTrack(encoder.trackEncoder, trackInfo)
    IN  IF encodedTrack.status = "throw" THEN encodedTrack
        ELSE Returned(encodedTrack.track, discordTrackInfo, PrimValue(Undefined))

\* DiscordTrackEncoder.encodeDiscordPlaylist: the tracks it returns are
\* discordTracks, mapped from the tracks it was given; of what encodePlaylist
\* returns it takes info and pluginInfo
encodeDiscordPlaylist(encoder, playlistInfo, tracks, requester, guildId, channelId) ==
    LET discordTracks ==
            [i \in 1..Len(tracks) |->
                [track |-> tracks[i].track,
                 info  |-> Spread(tracks[i].info,
                                  [requester |-> requester, guildId |-> guildId,
                                   channelId |-> channelId])]]
        encodedPlaylist == encodePlaylist(encoder.playlistEncoder, playlistInfo, tracks)
    IN  IF encodedPlaylist.status = "throw" THEN encodedPlaylist
        ELSE ReturnedPlaylist([info       |-> encodedPlaylist.playlist.info,
                               pluginInfo |-> encodedPlaylist.playlist.pluginInfo,
                               tracks     |-> discordTracks],
                              encodedPlaylist.warned)

\* DiscordTrackEncoder.createDiscordYouTubePlaylist; selectedTrack defaults
\* to 0, a duration is a number of seconds
createDiscordYouTubePlaylist(encoder, playlistId, name, videoData, requester, guildId, channelId, selectedTrack) ==
    LET tracks ==
            [i \in 1..Len(videoData) |->
                [track |-> <<>>,
                 info  |-> [identifier |-> videoData[i].videoId,
                            title      |-> videoData[i].title,
                            author     |-> videoData[i].author,
                            length     |-> Num(videoData[i].duration.n * 1000),
                            uri        |-> Str("https://www.youtube.com/watch?v="
                                               \o videoData[i].videoId.s),
                            isSeekable |-> Bool(videoData[i].duration.n > 0),
                            isStream   |-> Bool(videoData[i].duration.n = 0),
                            position   |-> Num(0),
                            sourceName |-> Str("youtube")]]]
    IN  encodeDiscordPlaylist(encoder,
                              [name |-> name,
                               selectedTrack |-> IF selectedTrack = Undefined
                                                 THEN Num(0) ELSE selectedTrack],
                              tracks, requester, guildId, channelId)

\* DiscordTrackEncoder.createDiscordSpotifyPlaylist; a duration is a number
\* of milliseconds (tracksData is the parameter trackData)
createDiscordSpotifyPlaylist(encoder, playlistId, name, tracksData, requester, guildId, channelId, selectedTrack) ==
    LET tracks ==
            [i \in 1..Len(tracksData) |->
                [track |-> <<>>,
                 info  |-> [identifier |-> tracksData[i].trackId,
                            title      |-> tracksData[i].title,
                            author     |-> tracksData[i].author,
                            length     |-> tracksData[i].duration,
                            uri        |-> Str("https://open.spotify.com/track/"
                                               \o tracksData[i].trackId.s),
                            isSeekable |-> Bool(tracksData[i].duration.n > 0),
                            isStream   |-> Bool(tracksData[i].duration.n = 0),
                            position   |-> Num(0),
                            sourceName |-> Str("spotify")]]]
    IN  encodeDiscordPlaylist(encoder,
                              [name |-> name,
                               selectedTrack |-> IF selectedTrack = Undefined
                                                 THEN Num(0) ELSE selectedTrack],
                              tracks, requester, guildId, channelId)

\* DiscordTrackEncoder.updateOptions
DiscordTrackEncoder_updateOptions(encoder, options) ==
    [trackEncoder |-> TrackEncoder_updateOptions(encoder.trackEncoder, options),
     playlistEncoder |->
         PlaylistEncoder_updateOptions(encoder.playlistEncoder, options)]

(***************************************************************************)
(* utils: decodeMultipleTracks                                             *)
(***************************************************************************)
\* decoder(encodedTrack): the decoder handed over is encoder.decodeTrack
Invoke(decoder, encodedTrack) ==
    CASE decoder = "decodeTrack" -> decodeTrack(encodedTrack)

\* the strings of the model that new URL(url) parses: the absolute URLs. Any
\* other string of the model, the empty one included, makes it throw
AbsoluteUrls ==
    { "https://www.youtube.com/watch?v=dQw4w9WgXcQ",
      "https://www.youtube.com/watch?v=9bZkp7q19f0",
      "https://i.ytimg.com/vi/dQw4w9WgXcQ/maxresdefault.jpg" }

\* isValidUrl(url): new URL(url) converts url to a string; no conversion of
\* a value that is not a string gives an absolute URL
isValidUrl(url) == url.t = "string" /\ url.s \in AbsoluteUrls

\* what utils validateTrackInfo returns
ReturnedErrors(errors) == [status |-> "return", error |-> "", errors |-> errors]

\* validateTrackInfo of utils testing the URL before everything else
utils_validateTrackInfoUrlFirst(trackInfo) ==
    ReturnedErrors(
        (IF ~isValidUrl(Get(trackInfo, "uri"))
         THEN <<"Track URI must be a valid URL">> ELSE <<>>)
        \o (IF ~Truthy(Get(trackInfo, "identifier"))
            THEN <<"Track identifier is required">> ELSE <<>>)
        \o (IF ~Truthy(Get(trackInfo, "title"))
            THEN <<"Track title is required">> ELSE <<>>)
        \o (IF ~Truthy(Get(trackInfo, "author"))
            THEN <<"Track author is required">> ELSE <<>>)
        \o (IF \/ TypeOf(Get(trackInfo, "length")) # "number"
               \/ LessThanZero(Get(trackInfo, "length"))
            THEN <<"Track length must be a non-negative number">> ELSE <<>>)
        \o (IF ~Truthy(Get(trackInfo, "uri"))
            THEN <<"Track URI is required">> ELSE <<>>))

\* validateTrackInfo of utils: the errors array
utils_validateTrackInfo(trackInfo) ==
    ReturnedErrors(
        (IF ~Truthy(Get(trackInfo, "identifier"))
         THEN <<"Track identifier is required">> ELSE <<>>)
        \o (IF ~Truthy(Get(trackInfo, "title"))
            THEN <<"Track title is required">> ELSE <<>>)
        \o (IF ~Truthy(Get(trackInfo, "author"))
            THEN <<"Track author is required">> ELSE <<>>)
        \o (IF \/ TypeOf(Get(trackInfo, "length")) # "number"
               \/ LessThanZero(Get(trackInfo, "length"))
            THEN <<"Track length must be a non-negative number">> ELSE <<>>)
        \o (IF ~Truthy(Get(trackInfo, "uri"))
            THEN <<"Track URI is required">> ELSE <<>>)
        \o (IF ~isValidUrl(Get(trackInfo, "uri"))
            THEN <<"Track URI must be a valid URL">> ELSE <<>>))

\* what decodeMultipleTracks returns
ReturnedResults(results) == [status |-> "return", error |-> "", results |-> results]

\* decodeMultipleTracks without the try/catch: the first failure ends the call
decodeMultipleTracksUncaught(encodedTracks, decoder) ==
    LET failed == {i \in 1..Len(encodedTracks) :
                      Invoke(decoder, encodedTracks[i]).status = "throw"}
    IN  IF failed # {}
        THEN Invoke(decoder, encodedTracks[CHOOSE i \in failed : \A j \in failed : i <= j])
        ELSE ReturnedResults([i \in 1..Len(encodedTracks) |->
                 [success |-> TRUE, track |-> Invoke(decoder, encodedTracks[i]).value]])

\* decodeMultipleTracks: index is the 0-based position in encodedTracks; what
\* decodeTrack throws is an Error, so error is its message
decodeMultipleTracks(encodedTracks, decoder) ==
    ReturnedResults(
        [i \in 1..Len(encodedTracks) |->
            LET decoded == Invoke(decoder, encodedTracks[i])
            IN  IF decoded.status = "return"
                THEN [success |-> TRUE, track |-> decoded.value]
                ELSE [success |-> FALSE, error |-> decoded.error, index |-> i - 1]])

(***************************************************************************)
(* The inputs of the model                                                 *)
(***************************************************************************)
\* how many properties of a record differ from the example record at once
MaxDeviations == 2

\* how many updateOptions calls a run makes
MaxUpdates == 1

\* the record of examples/decoding-usage.ts, without its optional fields
ExampleTrack ==
    [identifier |-> Str("dQw4w9WgXcQ"),
     title      |-> Str("Never Gonna Give You Up"),
     author     |-> Str("Rick Astley"),
     length     |-> Num(212000),
     uri        |-> Str("https://www.youtube.com/watch?v=dQw4w9WgXcQ"),
     isSeekable |-> Bool(TRUE),
     isStream   |-> Bool(FALSE),
     position   |-> Num(0),
     sourceName |-> Str("youtube")]

\* the other values a property takes: an optional property that is set, a
\* required one that is empty, a length that is zero, negative, fractional,
\* NaN or a string; "requester" stands for the three Discord properties
OtherValues ==
    [identifier |-> {Str("")},
     title      |-> {Str("")},
     author     |-> {Str("")},
     uri        |-> {Str("")},
     length     |-> {Num(0), Num(-1), Frac(1), NaN, Str("212000")},
     sourceName |-> {Str("")},
     artworkUrl |-> {Str("https://i.ytimg.com/vi/dQw4w9WgXcQ/maxresdefault.jpg"),
                     Str("")},
     isrc       |-> {Str("GBUM71202978")},
     requester  |-> {Ref("MusicLover")}]

Deviations ==
    UNION { { d \in [D -> UNION {OtherValues[k] : k \in D}] :
                \A k \in D : d[k] \in OtherValues[k] } :
            D \in {S \in SUBSET (DOMAIN OtherValues) : Cardinality(S) <= MaxDeviations} }

Annotation(requester) ==
    [requester |-> requester, guildId |-> Str("987654321098765432"),
     channelId |-> Str("111111111111111111")]

\* the records handed to the encoders
TrackInfos ==
    { IF "requester" \in DOMAIN d
      THEN Spread(Spread(ExampleTrack, d), Annotation(d["requester"]))
      ELSE Spread(ExampleTrack, d) : d \in Deviations }

DiscordKeys == {"requester", "guildId", "channelId"}

BareTrackInfos == {r \in TrackInfos : "requester" \notin DOMAIN r}

\* the records handed to validateTrackInfo of utils: those handed to the
\* encoders, and the example with a uri that is no URL
ValidatedTrackInfos ==
    TrackInfos \cup { [ExampleTrack EXCEPT !.uri = Str("dQw4w9WgXcQ")] }

\* the options objects handed to new LavalinkEncoder(options): none, the
\* object of examples/decoding-usage.ts (Example 5), and each of its options
\* alone
CustomOptions ==
    [includeArtwork |-> FALSE, includeISRC |-> FALSE, sourceName |-> "custom",
     validate |-> FALSE]

ConstructorOptions ==
    { <<>>, CustomOptions } \cup { [k \in {key} |-> CustomOptions[k]] : key \in DOMAIN CustomOptions }

\* the options objects handed to updateOptions: the object of the Discord
\* example (Example 9), one option switched off, and the defaults again
UpdateOptions ==
    { [includeArtwork |-> FALSE, maxTracks |-> 500, sourceName |-> "custom"],
      [validate |-> FALSE],
      [includeISRC |-> FALSE],
      [includeArtwork |-> TRUE, includeISRC |-> TRUE, sourceName |-> "unknown",
       validate |-> TRUE] }

\* JSON texts that are not the text of an encoded track
OtherTexts ==
    { <<Punct("{"), Punct("}")>>,
      <<Punct("{"), LStr("title"), Punct(":"), LStr("Never Gonna Give You Up"),
        Punct("}")>>,
      <<LNum(212000, "")>>, <<LStr("youtube")>>, <<LLit("true")>>, <<LLit("null")>>,
      <<Punct("["), Punct("]")>>,
      <<Punct("["), LNum(0, ""), Punct(","), LNum(0, ""), Punct("]")>>,
      <<LJunk("test")>>,
      <<Punct("{"), LStr("title"), Punct("}")>> }

WellFormedTokens == {fromByteArray(TextEncode(text)) : text \in OtherTexts}

\* tokens that are no output of base64: one or two characters cut off the
\* end, characters added after the padding, a character outside the alphabet
\* in place of the first, and padding alone
MalformedTokens ==
    { SubSeq(t, 1, Len(t) - 1) : t \in WellFormedTokens }
    \cup { SubSeq(t, 1, Len(t) - 2) : t \in WellFormedTokens }
    \cup { t \o <<0, 0, 0, 0>> : t \in WellFormedTokens }
    \cup { <<BadChar>> \o Tail(t) : t \in WellFormedTokens }
    \cup { <<PadChar, PadChar, PadChar, PadChar>> }

GivenTokens == WellFormedTokens \cup MalformedTokens

\* how many tokens a call of decodeMultipleTracks is handed
MaxBatch == 3

\* the payloads of tokens that hold an object without the fields of a track
PartialTexts ==
    { <<Punct("{"), Punct("}")>>,
      <<Punct("{"), LStr("title"), Punct(":"), LStr("Never Gonna Give You Up"),
        Punct("}")>> }

\* the tokens of a batch: the two partial objects and the bytes "test"
BatchTokens ==
    { fromByteArray(TextEncode(text)) : text \in PartialTexts \cup {<<LJunk("test")>>} }

TokenBatches == UNION { [1..n -> BatchTokens] : n \in 0..MaxBatch }

\* how many tracks a playlist handed to the encoder holds
MaxPlaylistTracks == 3

\* how many playlists a call of mergePlaylists is handed
MaxPlaylists == 2

\* the second track of the playlist example
GangnamStyle ==
    [identifier |-> Str("9bZkp7q19f0"),
     title      |-> Str("PSY - GANGNAM STYLE"),
     author     |-> Str("officialpsy"),
     length     |-> Num(252000),
     uri        |-> Str("https://www.youtube.com/watch?v=9bZkp7q19f0"),
     isSeekable |-> Bool(TRUE),
     isStream   |-> Bool(FALSE),
     position   |-> Num(0),
     sourceName |-> Str("youtube")]

\* the i-th track of a playlist: the two of the example, then the first one
\* at other positions
PlaylistTrackInfo(i) ==
    IF i = 1 THEN ExampleTrack
    ELSE IF i = 2 THEN GangnamStyle
    ELSE [ExampleTrack EXCEPT !.position = Num(i)]

\* a track that carries its token (from an encoder with the default options)
EncodedTrack(i) ==
    [track |-> encodeTrack(NewTrackEncoder(<<>>), PlaylistTrackInfo(i)).track,
     info  |-> PlaylistTrackInfo(i)]

\* a track still to be encoded, as createPlaylist builds it
UnencodedTrack(i) == [track |-> <<>>, info |-> PlaylistTrackInfo(i)]

\* the track arrays: the first n tracks, all with their tokens or the last
\* one without
TrackLists ==
    { [i \in 1..n |-> EncodedTrack(i)] : n \in 0..MaxPlaylistTracks }
    \cup { [i \in 1..n |-> IF i = n THEN UnencodedTrack(i) ELSE EncodedTrack(i)] :
             n \in 1..MaxPlaylistTracks }

\* the trackInfos arrays of createPlaylist: the first n records, the last one
\* as it is or with an empty identifier
TrackInfoLists ==
    { [i \in 1..n |-> PlaylistTrackInfo(i)] : n \in 0..MaxPlaylistTracks }
    \cup { [i \in 1..n |-> IF i = n
                           THEN [PlaylistTrackInfo(i) EXCEPT !.identifier = Str("")]
                           ELSE PlaylistTrackInfo(i)] : n \in 1..MaxPlaylistTracks }

\* the record of the i-th track with one required property left empty
InvalidTrackInfo(i, property) == [PlaylistTrackInfo(i) EXCEPT ![property] = Str("")]

\* track arrays with records that do not pass validateTrackInfo: under a
\* token, on a track still to be encoded, on both, on two tracks to encode,
\* and on the last track of three
InvalidTrackLists ==
    { <<[EncodedTrack(1) EXCEPT !.info = InvalidTrackInfo(1, "identifier")]>>,
      <<[EncodedTrack(1) EXCEPT !.info = InvalidTrackInfo(1, "title")],
        UnencodedTrack(2)>>,
      <<[EncodedTrack(1) EXCEPT !.info = InvalidTrackInfo(1, "title")],
        [track |-> <<>>, info |-> InvalidTrackInfo(2, "identifier")]>>,
      <<[track |-> <<>>, info |-> InvalidTrackInfo(1, "author")],
        [track |-> <<>>, info |-> InvalidTrackInfo(2, "identifier")]>>,
      <<EncodedTrack(1), UnencodedTrack(2),
        [track |-> <<>>, info |-> InvalidTrackInfo(3, "uri")]>> }

\* selectedTrack: the first, the second, one past every playlist, Lavalink's
\* -1 for none, and NaN
SelectedTracks == {Num(0), Num(1), Num(MaxPlaylistTracks + 2), Num(-1), NaN}

PlaylistInfos ==
    { [name |-> "My Awesome Playlist", selectedTrack |-> selectedTrack] :
        selectedTrack \in SelectedTracks }
    \cup { [name |-> "", selectedTrack |-> Num(0)] }

\* playlistInfos whose selectedTrack is not of type number, as a caller
\* without the type checker can hand them to encodePlaylist: with a name and
\* without one
UntypedPlaylistInfos ==
    { [name |-> name, selectedTrack |-> Str("1")] : name \in {"My Awesome Playlist", ""} }

\* the playlists handed to splitPlaylist
GivenPlaylists ==
    { [info |-> info, pluginInfo |-> <<>>, tracks |-> tracks] :
        info \in PlaylistInfos, tracks \in TrackLists }

\* chunkSize
ChunkSizes == -1..MaxPlaylistTracks

\* the playlists handed to mergePlaylists: of at most two tracks, selecting
\* the first track or one past every playlist
MergeInputs ==
    { p \in GivenPlaylists :
        /\ p.info.name # ""
        /\ p.info.selectedTrack \in {Num(0), Num(MaxPlaylistTracks + 2)}
        /\ Len(p.tracks) <= 2
        /\ Len(p.tracks) = 2 => p.tracks[2].track # <<>> }

PlaylistLists == UNION { [1..n -> MergeInputs] : n \in 0..MaxPlaylists }

\* the i-th video of a YouTube playlist: the two of the example, then a live
\* stream (duration 0)
Video(i) ==
    [videoId  |-> PlaylistTrackInfo(i).identifier,
     title    |-> PlaylistTrackInfo(i).title,
     author   |-> PlaylistTrackInfo(i).author,
     duration |-> IF i = 1 THEN Num(212) ELSE IF i = 2 THEN Num(252) ELSE Num(0)]

VideoLists == { [i \in 1..n |-> Video(i)] : n \in 0..MaxPlaylistTracks }

\* the i-th track of a Spotify playlist: the same song, with the lengths of
\* the example and then with none
SpotifyTrack(i) ==
    [trackId  |-> Str("4PTG3Z6ehGkBFwjybzWkR8"),
     title    |-> ExampleTrack.title,
     author   |-> ExampleTrack.author,
     duration |-> IF i = 1 THEN Num(212000) ELSE IF i = 2 THEN Num(252000)
                  ELSE Num(0)]

SpotifyLists == { [i \in 1..n |-> SpotifyTrack(i)] : n \in 0..MaxPlaylistTracks }

\* the options objects handed to new LavalinkEncoder(options) and to
\* updateOptions by a caller of the playlist methods
PlaylistConstructorOptions ==
    { <<>>, [maxTracks |-> 2], [validate |-> FALSE, maxTracks |-> 0] }

PlaylistUpdateOptions == { [maxTracks |-> 1], [validate |-> FALSE] }

(***************************************************************************)
(* The state: a LavalinkEncoder and its caller                             *)
(***************************************************************************)
VARIABLES
    trackEncoder,     \* LavalinkEncoder.trackEncoder
    playlistEncoder,  \* LavalinkEncoder.playlistEncoder
    discordEncoder,   \* LavalinkEncoder.discordEncoder
    call,             \* the last call made on the encoder, with its arguments
    ret,              \* what that call returned or threw
    updates           \* the number of updateOptions calls made

vars == <<trackEncoder, playlistEncoder, discordEncoder, call, ret, updates>>

\* call.op names the method; info is its record argument and encoder the
\* TrackEncoder that ran it (for decodeTrack of a token an encode call
\* returned: the record and encoder of that encode call, and from names the
\* method), token and options the other arguments
Call(op, info, token, options, encoder, from) ==
    [op |-> op, info |-> info, token |-> token, options |-> options,
     encoder |-> encoder, from |-> from]

NoEncoder == [options |-> <<>>]

\* new LavalinkEncoder(options)
Init ==
    \E options \in ConstructorOptions :
        /\ trackEncoder = NewTrackEncoder(options)
        /\ playlistEncoder = NewPlaylistEncoder(options)
        /\ discordEncoder = NewDiscordTrackEncoder
        /\ call = Call("new", <<>>, <<>>, options, NoEncoder, "")
        /\ ret = Nothing
        /\ updates = 0

\* the caller makes its next call when the last one has been dealt with
Ready == ret.status = "none"

\* LavalinkEncoder.encodeTrack(trackInfo)
EncodeTrack ==
    \E trackInfo \in TrackInfos :
        /\ Ready
        /\ call' = Call("encodeTrack", trackInfo, <<>>, <<>>, trackEncoder, "")
        /\ ret' = encodeTrack(trackEncoder, trackInfo)
        /\ UNCHANGED <<trackEncoder, playlistEncoder, discordEncoder, updates>>

\* LavalinkEncoder.encodeDiscordTrack(trackInfo, requester, guildId, channelId)
EncodeDiscordTrack ==
    \E trackInfo \in BareTrackInfos :
        /\ Ready
        /\ call' = Call("encodeDiscordTrack", trackInfo, <<>>, <<>>,
                        discordEncoder.trackEncoder, "")
        /\ ret' = encodeDiscordTrack(discordEncoder, trackInfo, Ref("MusicLover"),
                                     Str("987654321098765432"),
                                     Str("111111111111111111"))
        /\ UNCHANGED <<trackEncoder, playlistEncoder, discordEncoder, updates>>

\* LavalinkEncoder.decodeTrack(encodedTrack), on the token the last encode
\* call returned
DecodeReturnedTrack ==
    /\ call.op \in {"encodeTrack", "encodeDiscordTrack"}
    /\ ret.status = "return"
    /\ call' = [call EXCEPT !.op = "decodeTrack", !.token = ret.track, !.from = call.op]
    /\ ret' = decodeTrack(ret.track)
    /\ UNCHANGED <<trackEncoder, playlistEncoder, discordEncoder, updates>>

\* LavalinkEncoder.decodeTrack(encodedTrack), on a token from elsewhere
DecodeGivenTrack ==
    \E encodedTrack \in GivenTokens :
        /\ Ready
        /\ call' = Call("decodeTrack", <<>>, encodedTrack, <<>>, NoEncoder, "given")
        /\ ret' = decodeTrack(encodedTrack)
        /\ UNCHANGED <<trackEncoder, playlistEncoder, discordEncoder, updates>>

\* decodeMultipleTracks(encodedTracks, encoder.decodeTrack.bind(encoder))
DecodeMultipleTracks ==
    \E encodedTracks \in TokenBatches :
        /\ Ready
        /\ call' = [op |-> "decodeMultipleTracks", tokens |-> encodedTracks,
                    decoder |-> "decodeTrack"]
        /\ ret' = decodeMultipleTracks(encodedTracks, "decodeTrack")
        /\ UNCHANGED <<trackEncoder, playlistEncoder, discordEncoder, updates>>

\* validateTrackInfo(trackInfo) of utils
ValidateTrackInfo ==
    \E trackInfo \in ValidatedTrackInfos :
        /\ Ready
        /\ call' = Call("validateTrackInfo", trackInfo, <<>>, <<>>, NoEncoder, "")
        /\ ret' = utils_validateTrackInfo(trackInfo)
        /\ UNCHANGED <<trackEncoder, playlistEncoder, discordEncoder, updates>>

\* LavalinkEncoder.updateOptions(options)
UpdateEncoderOptions ==
    \E options \in UpdateOptions :
        /\ Ready
        /\ updates < MaxUpdates
        /\ trackEncoder' = TrackEncoder_updateOptions(trackEncoder, options)
        /\ playlistEncoder' = PlaylistEncoder_updateOptions(playlistEncoder, options)
        /\ discordEncoder' = DiscordTrackEncoder_updateOptions(discordEncoder, options)
        /\ call' = Call("updateOptions", <<>>, <<>>, options, NoEncoder, "")
        /\ ret' = Nothing
        /\ updates' = updates + 1

\* the caller is done with what the last call returned or threw
Continue ==
    /\ ret.status \in {"return", "throw"}
    /\ call' = Call("none", <<>>, <<>>, <<>>, NoEncoder, "")
    /\ ret' = Nothing
    /\ UNCHANGED <<trackEncoder, playlistEncoder, discordEncoder, updates>>

Next ==
    \/ EncodeTrack
    \/ EncodeDiscordTrack
    \/ DecodeReturnedTrack
    \/ DecodeGivenTrack
    \/ DecodeMultipleTracks
    \/ ValidateTrackInfo
    \/ UpdateEncoderOptions
    \/ Continue

Spec == Init /\ [][Next]_vars

(***************************************************************************)
(* A caller of the playlist methods                                        *)
(***************************************************************************)
\* new LavalinkEncoder(options)
PlaylistInit ==
    \E options \in PlaylistConstructorOptions :
        /\ trackEncoder = NewTrackEncoder(options)
        /\ playlistEncoder = NewPlaylistEncoder(options)
        /\ discordEncoder = NewDiscordTrackEncoder
        /\ call = Call("new", <<>>, <<>>, options, NoEncoder, "")
        /\ ret = Nothing
        /\ updates = 0

\* LavalinkEncoder.encodePlaylist(playlistInfo, tracks)
EncodePlaylist ==
    \E playlistInfo \in PlaylistInfos \cup UntypedPlaylistInfos,
       tracks \in TrackLists \cup InvalidTrackLists :
        /\ Ready
        /\ call' = [op |-> "encodePlaylist", playlistInfo |-> playlistInfo,
                    tracks |-> tracks]
        /\ ret' = encodePlaylist(playlistEncoder, playlistInfo, tracks)
        /\ UNCHANGED <<trackEncoder, playlistEncoder, discordEncoder, updates>>

\* LavalinkEncoder.createPlaylist(name, trackInfos, selectedTrack)
CreatePlaylist ==
    \E playlistInfo \in PlaylistInfos, trackInfos \in TrackInfoLists,
       given \in BOOLEAN :
        /\ Ready
        /\ given \/ playlistInfo.selectedTrack = Num(0)
        /\ LET selectedTrack == IF given THEN playlistInfo.selectedTrack ELSE Undefined
           IN  /\ call' = [op |-> "createPlaylist", name |-> playlistInfo.name,
                           trackInfos |-> trackInfos, selectedTrack |-> selectedTrack]
               /\ ret' = createPlaylist(playlistEncoder, playlistInfo.name, trackInfos,
                                        selectedTrack)
        /\ UNCHANGED <<trackEncoder, playlistEncoder, discordEncoder, updates>>

\* LavalinkEncoder.encodePlaylist(p.info, p.tracks), on the playlist p the
\* last encodePlaylist or createPlaylist call returned
ReencodeReturnedPlaylist ==
    /\ call.op \in {"encodePlaylist", "createPlaylist"}
    /\ "first" \notin DOMAIN call
    /\ ret.status = "return"
    /\ call' = [op |-> "encodePlaylist", playlistInfo |-> ret.playlist.info,
                tracks |-> ret.playlist.tracks, first |-> ret.playlist]
    /\ ret' = encodePlaylist(playlistEncoder, ret.playlist.info, ret.playlist.tracks)
    /\ UNCHANGED <<trackEncoder, playlistEncoder, discordEncoder, updates>>

\* LavalinkEncoder.mergePlaylists(playlists, newName)
MergePlaylists ==
    \E playlists \in PlaylistLists, newName \in {"", "Everything"} :
        /\ Ready
        /\ call' = [op |-> "mergePlaylists", playlists |-> playlists,
                    newName |-> newName, from |-> "given"]
        /\ ret' = mergePlaylists(playlistEncoder, playlists, newName)
        /\ UNCHANGED <<trackEncoder, playlistEncoder, discordEncoder, updates>>

\* LavalinkEncoder.splitPlaylist(playlist, chunkSize): the call, up to the
\* first test of its loop
SplitPlaylist ==
    \E playlist \in GivenPlaylists, chunkSize \in ChunkSizes :
        /\ Ready
        /\ call' = [op |-> "splitPlaylist", playlist |-> playlist,
                    chunkSize |-> chunkSize]
        /\ ret' = Splitting(0, <<>>)
        /\ UNCHANGED <<trackEncoder, playlistEncoder, discordEncoder, updates>>

\* the most chunks the model lets splitPlaylist collect: one more than a call
\* that takes a track or more at every pass can return
MaxChunks == MaxPlaylistTracks + 1

\* splitPlaylist: one pass of its loop, or its return
SplitPlaylistStep ==
    /\ call.op = "splitPlaylist"
    /\ ret.status = "running"
    /\ Len(ret.chunks) < MaxChunks
    /\ ret' = splitPlaylistStep(playlistEncoder, call.playlist, call.chunkSize,
                                ret.i, ret.chunks)
    /\ UNCHANGED <<trackEncoder, playlistEncoder, discordEncoder, call, updates>>

\* LavalinkEncoder.mergePlaylists(chunks), on the chunks splitPlaylist returned
MergeReturnedChunks ==
    /\ call.op = "splitPlaylist"
    /\ ret.status = "return"
    /\ call' = [op |-> "mergePlaylists", playlists |-> ret.chunks, newName |-> "",
                from |-> "splitPlaylist", playlist |-> call.playlist,
                chunkSize |-> call.chunkSize]
    /\ ret' = mergePlaylists(playlistEncoder, ret.chunks, "")
    /\ UNCHANGED <<trackEncoder, playlistEncoder, discordEncoder, updates>>

\* LavalinkEncoder.updateOptions(options)
UpdatePlaylistOptions ==
    \E options \in PlaylistUpdateOptions :
        /\ Ready
        /\ updates < MaxUpdates
        /\ trackEncoder' = TrackEncoder_updateOptions(trackEncoder, options)
        /\ playlistEncoder' = PlaylistEncoder_updateOptions(playlistEncoder, options)
        /\ discordEncoder' = DiscordTrackEncoder_updateOptions(discordEncoder, options)
        /\ call' = Call("updateOptions", <<>>, <<>>, options, NoEncoder, "")
        /\ ret' = Nothing
        /\ updates' = updates + 1

PlaylistNext ==
    \/ EncodePlaylist
    \/ CreatePlaylist
    \/ ReencodeReturnedPlaylist
    \/ MergePlaylists
    \/ SplitPlaylist
    \/ SplitPlaylistStep
    \/ MergeReturnedChunks
    \/ UpdatePlaylistOptions
    \/ Continue

PlaylistSpec == PlaylistInit /\ [][PlaylistNext]_vars

(***************************************************************************)
(* A caller of the Discord playlist methods                                *)
(***************************************************************************)
\* LavalinkEncoder.encodeDiscordPlaylist(playlistInfo, tracks, requester,
\* guildId, channelId)
EncodeDiscordPlaylist ==
    \E playlistInfo \in PlaylistInfos, tracks \in TrackLists :
        /\ Ready
        /\ call' = [op |-> "encodeDiscordPlaylist", playlistInfo |-> playlistInfo,
                    tracks |-> tracks]
        /\ ret' = encodeDiscordPlaylist(discordEncoder, playlistInfo, tracks,
                                        Ref("MusicLover"), Str("987654321098765432"),
                                        Str("111111111111111111"))
        /\ UNCHANGED <<trackEncoder, playlistEncoder, discordEncoder, updates>>

\* LavalinkEncoder.createDiscordYouTubePlaylist(playlistId, name, videoData,
\* requester, guildId, channelId, selectedTrack)
CreateDiscordYouTubePlaylist ==
    \E playlistInfo \in PlaylistInfos, videoData \in VideoLists, given \in BOOLEAN :
        /\ Ready
        /\ given \/ playlistInfo.selectedTrack = Num(0)
        /\ LET selectedTrack == IF given THEN playlistInfo.selectedTrack ELSE Undefined
           IN  /\ call' = [op |-> "createDiscordYouTubePlaylist",
                           name |-> playlistInfo.name, videoData |-> videoData,
                           selectedTrack |-> selectedTrack]
               /\ ret' = createDiscordYouTubePlaylist(
                             discordEncoder, "PLrAXtmRdnEQy", playlistInfo.name,
                             videoData, Ref("MusicLover"), Str("987654321098765432"),
                             Str("111111111111111111"), selectedTrack)
        /\ UNCHANGED <<trackEncoder, playlistEncoder, discordEncoder, updates>>

\* LavalinkEncoder.createDiscordSpotifyPlaylist(playlistId, name, trackData,
\* requester, guildId, channelId, selectedTrack)
CreateDiscordSpotifyPlaylist ==
    \E playlistInfo \in PlaylistInfos, tracksData \in SpotifyLists, given \in BOOLEAN :
        /\ Ready
        /\ given \/ playlistInfo.selectedTrack = Num(0)
        /\ LET selectedTrack == IF given THEN playlistInfo.selectedTrack ELSE Undefined
           IN  /\ call' = [op |-> "createDiscordSpotifyPlaylist",
                           name |-> playlistInfo.name, trackData |-> tracksData,
                           selectedTrack |-> selectedTrack]
               /\ ret' = createDiscordSpotifyPlaylist(
                             discordEncoder, "37i9dQZF1DX", playlistInfo.name,
                             tracksData, Ref("MusicLover"), Str("987654321098765432"),
                             Str("111111111111111111"), selectedTrack)
        /\ UNCHANGED <<trackEncoder, playlistEncoder, discordEncoder, updates>>

DiscordNext ==
    \/ EncodeDiscordPlaylist
    \/ CreateDiscordYouTubePlaylist
    \/ CreateDiscordSpotifyPlaylist
    \/ UpdatePlaylistOptions
    \/ Continue

DiscordSpec == PlaylistInit /\ [][DiscordNext]_vars

(***************************************************************************)
(* A caller of mergePlaylists and splitPlaylist that keeps its playlists   *)
(***************************************************************************)
RECURSIVE HeapOf(_)
\* the heap of a caller that holds the playlists: the tracks array of the
\* i-th at 2i - 1, the playlist at 2i
HeapOf(playlists) ==
    IF playlists = <<>> THEN <<>>
    ELSE LET last == playlists[Len(playlists)]
             held == HeapOf(SubSeq(playlists, 1, Len(playlists) - 1))
         IN  held \o << ArrayObject(last.tracks),
                        PlaylistObject(last.info, last.pluginInfo, Len(held) + 1) >>

\* the arrays of references a caller holding n playlists hands to
\* mergePlaylists: every playlist once, or of two the first one twice
PlaylistRefs(n) ==
    { [i \in 1..n |-> 2 * i] } \cup (IF n = 2 THEN { <<2, 2>> } ELSE {})

\* LavalinkEncoder.mergePlaylists(playlists, newName), by a caller that
\* holds the playlists
MergePlaylistsOnHeap ==
    \E given \in PlaylistLists, newName \in {"", "Everything"} :
        \E playlists \in PlaylistRefs(Len(given)) :
            /\ Ready
            /\ call' = [op |-> "mergePlaylists", heap |-> HeapOf(given),
                        playlists |-> playlists, newName |-> newName]
            /\ ret' = mergePlaylistsOnHeap(HeapOf(given), playlistEncoder, playlists,
                                           newName)
            /\ UNCHANGED <<trackEncoder, playlistEncoder, discordEncoder, updates>>

\* LavalinkEncoder.splitPlaylist(playlist, chunkSize), by a caller that holds
\* the playlist: the call, up to the first test of its loop
SplitPlaylistOnHeap ==
    \E given \in GivenPlaylists, chunkSize \in ChunkSizes :
        /\ Ready
        /\ call' = [op |-> "splitPlaylist", heap |-> HeapOf(<<given>>),
                    playlists |-> <<2>>, chunkSize |-> chunkSize]
        /\ ret' = SplittingOnHeap(HeapOf(<<given>>), 0, <<>>)
        /\ UNCHANGED <<trackEncoder, playlistEncoder, discordEncoder, updates>>

\* splitPlaylist: one pass of its loop, or its return
SplitPlaylistStepOnHeap ==
    /\ call.op = "splitPlaylist"
    /\ ret.status = "running"
    /\ Len(ret.refs) < MaxChunks
    /\ ret' = splitPlaylistStepOnHeap(ret.heap, playlistEncoder, call.playlists[1],
                                      call.chunkSize, ret.i, ret.refs)
    /\ UNCHANGED <<trackEncoder, playlistEncoder, discordEncoder, call, updates>>

HeapNext ==
    \/ MergePlaylistsOnHeap
    \/ SplitPlaylistOnHeap
    \/ SplitPlaylistStepOnHeap
    \/ UpdatePlaylistOptions
    \/ Continue

HeapSpec == PlaylistInit /\ [][HeapNext]_vars

(***************************************************************************)
(* What the claims speak of                                                *)
(***************************************************************************)
\* the fields every token carries
ProjectedKeys ==
    {"identifier", "isSeekable", "author", "length", "isStream", "position",
     "title", "uri", "sourceName"}

\* the call just made was an encode of call.info by call.encoder
Encoding == call.op \in {"encodeTrack", "encodeDiscordTrack"}

\* the call just made decoded the token an encode of call.info returned
DecodingOwnToken == call.op = "decodeTrack" /\ call.from # "given"

NonEmpty(r, k) == k \in DOMAIN r /\ r[k].t = "string" /\ r[k].s # ""

DefaultOptions(o) ==
    o.includeArtwork /\ o.includeISRC /\ o.sourceName = "unknown" /\ o.validate

\* the optional fields the projection of r under options o keeps
KeptOptional(r, o) ==
    {k \in {"artworkUrl"} : o.includeArtwork /\ NonEmpty(r, k)}
    \cup {k \in {"isrc"} : o.includeISRC /\ NonEmpty(r, k)}

\* the projection of r under options o: the projected fields with r's
\* values, and the configured source for an empty sourceName
Projection(r, o) ==
    [k \in ProjectedKeys \cup KeptOptional(r, o) |->
        IF k = "sourceName" /\ ~NonEmpty(r, k) THEN Str(o.sourceName) ELSE r[k]]

\* a value as JSON carries it: NaN has no JSON text and arrives as null
Carried(v) == IF v = NaN THEN Null ELSE v

Bare(r) == [k \in (DOMAIN r) \ DiscordKeys |-> r[k]]

\* C2: encoding a record that carries requester, guildId and channelId gives
\* what encoding the bare record gives (the same token, or the same error),
\* and the token decodes to an object without those three fields
C2_AnnotationNotEncoded ==
    /\ (Encoding /\ (DOMAIN call.info) \cap DiscordKeys # {}) =>
          LET bare == encodeTrack(call.encoder, Bare(call.info))
          IN  /\ ret.status = bare.status
              /\ ret.track = bare.track
              /\ ret.error = bare.error
    /\ (call.op = "encodeDiscordTrack" /\ ret.status = "return") =>
          /\ DiscordKeys \subseteq DOMAIN ret.info
          /\ ret.track = encodeTrack(call.encoder, Bare(ret.info)).track
    /\ DecodingOwnToken =>
          /\ ret.status = "return"
          /\ ret.value.k = "object"
          /\ (DOMAIN ret.value.o) \cap DiscordKeys = {}

C2_Witness ==
    /\ call.op = "decodeTrack" /\ call.from = "encodeTrack"
    /\ DiscordKeys \subseteq DOMAIN call.info
    /\ ret.status = "return"
    /\ ret.value.o = Bare(call.info)

\* C3 as stated: the Discord encoder applies the options of the track encoder,
\* so encodeDiscordTrack(r, ...) returns the token encodeTrack(r) returns and
\* fails exactly when encodeTrack(r) fails
C3_SharedConfiguration ==
    call.op = "encodeDiscordTrack" =>
        /\ TrackOptionsOf(call.encoder.options) = TrackOptionsOf(trackEncoder.options)
        /\ ret.status = encodeTrack(trackEncoder, call.info).status
        /\ ret.track = encodeTrack(trackEncoder, call.info).track

\* the validated fields in the order of the checks, and what makes one fail
CheckOrder == <<"identifier", "title", "author", "length", "uri">>

Fails(r, k) ==
    IF k = "length"
    THEN Get(r, k).t # "number" \/ (Get(r, k).s # "NaN" /\ Get(r, k).n < 0)
    ELSE ~NonEmpty(r, k)

FailingPlaces(r) == {i \in 1..Len(CheckOrder) : Fails(r, CheckOrder[i])}

FirstFailing(r) ==
    CheckOrder[CHOOSE i \in FailingPlaces(r) : \A j \in FailingPlaces(r) : i <= j]

MessageFor ==
    [identifier |-> "Track identifier is required",
     title      |-> "Track title is required",
     author     |-> "Track author is required",
     length     |-> "Track length must be a non-negative number",
     uri        |-> "Track URI is required"]

\* C4: with validation enabled, encoding a record with one or more failing
\* fields throws the one error of the first failing field in the order
\* identifier, title, author, length, uri, and returns no token
C4_FirstFailingField ==
    (Encoding /\ call.encoder.options.validate /\ FailingPlaces(call.info) # {}) =>
        /\ ret.status = "throw"
        /\ ret.error = MessageFor[FirstFailing(call.info)]
        /\ ret.track = <<>>

C4_Witness ==
    /\ call.op = "encodeTrack" /\ call.encoder.options.validate
    /\ call.info["identifier"] = Str("") /\ call.info["title"] = Str("")
    /\ ret.status = "throw"
    /\ ret.error = "Track identifier is required"

NonNegativeInteger(v) == v.t = "number" /\ v.s = "" /\ v.n >= 0

OthersNonEmpty(r) == \A k \in {"identifier", "title", "author", "uri"} : NonEmpty(r, k)

\* C5 as stated: with validation enabled, encodeTrack throws for every length
\* that is not a non-negative integer and accepts every record with a
\* non-negative integer length and non-empty identifier, title, author, uri
C5_LengthInteger ==
    (Encoding /\ call.encoder.options.validate) =>
        /\ ~NonNegativeInteger(Get(call.info, "length")) => ret.status = "throw"
        /\ (NonNegativeInteger(Get(call.info, "length")) /\ OthersNonEmpty(call.info))
              => ret.status = "return"

\* C5 amended: with validation enabled, encodeTrack throws for every length
\* that is not of type number or is negative, and accepts every record whose
\* length is a number that is not negative (an integer, a fraction or NaN)
\* and whose identifier, title, author and uri are non-empty
C5_LengthNumber ==
    (Encoding /\ call.encoder.options.validate) =>
        LET length == Get(call.info, "length")
        IN  /\ (length.t # "number" \/ (length.s # "NaN" /\ length.n < 0))
                  => (ret.status = "throw" /\ ret.track = <<>>)
            /\ (length.t = "number" /\ (length.s = "NaN" \/ length.n >= 0)
                /\ OthersNonEmpty(call.info))
                  => (ret.status = "return" /\ ret.track # <<>>)

C5_Witness ==
    /\ call.op = "encodeTrack" /\ call.encoder.options.validate
    /\ call.info["length"] = Frac(1)
    /\ ret.status = "return"

\* C6: with validation disabled, encodeTrack throws nothing and returns a
\* token, whatever the record holds
C6_NoValidation ==
    (Encoding /\ ~call.encoder.options.validate) =>
        /\ ret.status = "return"
        /\ ret.track # <<>>
        /\ ret.error = ""

C6_Witness ==
    /\ call.op = "encodeTrack" /\ ~call.encoder.options.validate
    /\ call.info["identifier"] = Str("") /\ call.info["length"] = Num(-1)
    /\ ret.status = "return" /\ ret.track # <<>>

\* C7 as stated: the payload holds artworkUrl exactly when includeArtwork is on
\* and the record has an artworkUrl property, and isrc likewise
C7_OptionalIfPresent ==
    (DecodingOwnToken /\ ret.status = "return") =>
        /\ "artworkUrl" \in DOMAIN ret.value.o
              <=> (call.encoder.options.includeArtwork /\ "artworkUrl" \in DOMAIN call.info)
        /\ "isrc" \in DOMAIN ret.value.o
              <=> (call.encoder.options.includeISRC /\ "isrc" \in DOMAIN call.info)

\* C7 amended: the payload holds artworkUrl exactly when includeArtwork is on
\* and the record's artworkUrl is a non-empty string, and isrc exactly when
\* includeISRC is on and the record's isrc is a non-empty string; a field the
\* configuration excludes is absent after decoding
C7_OptionalIfNonEmpty ==
    DecodingOwnToken =>
        /\ ret.status = "return"
        /\ "artworkUrl" \in DOMAIN ret.value.o
              <=> (call.encoder.options.includeArtwork /\ NonEmpty(call.info, "artworkUrl"))
        /\ "isrc" \in DOMAIN ret.value.o
              <=> (call.encoder.options.includeISRC /\ NonEmpty(call.info, "isrc"))
        /\ \A k \in {"artworkUrl", "isrc"} :
              k \in DOMAIN ret.value.o => ret.value.o[k] = call.info[k]

C7_Witness ==
    /\ call.op = "decodeTrack" /\ call.from = "encodeTrack"
    /\ ~call.encoder.options.includeArtwork /\ call.encoder.options.includeISRC
    /\ NonEmpty(call.info, "artworkUrl") /\ NonEmpty(call.info, "isrc")
    /\ ret.status = "return"
    /\ "artworkUrl" \notin DOMAIN ret.value.o
    /\ "isrc" \in DOMAIN ret.value.o

\* C8: a record with an empty sourceName decodes to the configured
\* sourceName, a record with a non-empty sourceName to its own
C8_DefaultSource ==
    DecodingOwnToken =>
        /\ ret.status = "return"
        /\ "sourceName" \in DOMAIN ret.value.o
        /\ ret.value.o["sourceName"] =
              IF call.info["sourceName"] = Str("")
              THEN Str(call.encoder.options.sourceName)
              ELSE call.info["sourceName"]

C8_Witness ==
    /\ call.op = "decodeTrack" /\ call.from = "encodeTrack"
    /\ call.info["sourceName"] = Str("")
    /\ call.encoder.options.sourceName = "custom"
    /\ ret.status = "return"
    /\ ret.value.o["sourceName"] = Str("custom")

\* a token base64 can have produced: whole groups of four characters of the
\* alphabet, the last group ending in at most two "="
IsBase64(token) ==
    /\ Len(token) % 4 = 0
    /\ \A i \in 1..Len(token) :
          \/ token[i] \in 0..63
          \/ token[i] = PadChar /\ i >= Len(token) - 1
             /\ \A j \in i..Len(token) : token[j] = PadChar

\* C9 as stated: decodeTrack throws, and returns nothing, for a token that is
\* not well-formed base64 and for a well-formed token whose bytes are not
\* the text of structured data
C9_GarbageThrows ==
    (call.op = "decodeTrack" /\ call.from = "given") =>
        /\ ~IsBase64(call.token) => ret.status = "throw"
        /\ (IsBase64(call.token) /\ ~JSONparse(TextDecode(toByteArray(call.token).bytes)).ok)
              => ret.status = "throw"

\* C10 as stated: decodeTrack never returns anything but an object
C10_OnlyObjects ==
    (call.op = "decodeTrack" /\ ret.status = "return") => ret.value.k = "object"

\* C11: decodeTrack of a well-formed token whose payload is an object that
\* lacks fields of a track (the empty object, an object with a title only)
\* returns exactly the fields of the payload: none is added, nothing is thrown
C11_PermissiveDecode ==
    \A text \in PartialTexts :
        ( /\ call.op = "decodeTrack" /\ call.from = "given"
          /\ call.token = fromByteArray(TextEncode(text)) ) =>
            /\ ret.status = "return"
            /\ ret.error = ""
            /\ ret.value.k = "object"
            /\ ret.value.o =
                  IF Len(text) = 2 THEN <<>>
                  ELSE [title |-> Str("Never Gonna Give You Up")]

C11_Witness ==
    /\ call.op = "decodeTrack" /\ call.from = "given"
    /\ call.token = fromByteArray(TextEncode(<<Punct("{"), Punct("}")>>))
    /\ ret.status = "return"
    /\ ret.value = ObjectValue(<<>>)

\* C12: decodeMultipleTracks(ts, decodeTrack) throws nothing and returns as
\* many entries as ts has tokens, in the order of ts: entry i is {success:
\* true, track: decodeTrack(ts[i])} when decodeTrack returns on ts[i] and
\* {success: false, error, index: i} when it throws, whatever the other
\* tokens are
C12_BatchIsolation ==
    call.op = "decodeMultipleTracks" =>
        /\ ret.status = "return"
        /\ Len(ret.results) = Len(call.tokens)
        /\ \A i \in 1..Len(call.tokens) :
              LET single == decodeTrack(call.tokens[i])
              IN  IF single.status = "return"
                  THEN ret.results[i] = [success |-> TRUE, track |-> single.value]
                  ELSE /\ ret.results[i].success = FALSE
                       /\ ret.results[i].index = i - 1
                       /\ ret.results[i].error = single.error
                       /\ DOMAIN ret.results[i] = {"success", "error", "index"}

C12_Witness ==
    /\ call.op = "decodeMultipleTracks"
    /\ Len(call.tokens) = 3
    /\ ret.status = "return"
    /\ ret.results[1] = [success |-> TRUE, track |-> ObjectValue(<<>>)]
    /\ ret.results[2].success = FALSE /\ ret.results[2].index = 1
    /\ ret.results[3] =
          [success |-> TRUE,
           track |-> ObjectValue([title |-> Str("Never Gonna Give You Up")])]

(***************************************************************************)
(* What the playlist claims speak of                                       *)
(***************************************************************************)
\* the call just made was encodePlaylist or createPlaylist
EncodingPlaylist == call.op \in {"encodePlaylist", "createPlaylist"}

\* the tracks, the name and the selectedTrack that call handed over
GivenTracks ==
    IF call.op = "encodePlaylist" THEN call.tracks
    ELSE [i \in 1..Len(call.trackInfos) |-> [track |-> <<>>, info |-> call.trackInfos[i]]]

GivenName == IF call.op = "encodePlaylist" THEN call.playlistInfo.name ELSE call.name

GivenSelectedTrack ==
    IF call.op = "encodePlaylist" THEN call.playlistInfo.selectedTrack
    ELSE IF call.selectedTrack = Undefined THEN Num(0) ELSE call.selectedTrack

\* v is a number >= 0 (not NaN)
NonNegative(v) == v.t = "number" /\ v.s # "NaN" /\ v.n >= 0

Min(a, b) == IF a <= b THEN a ELSE b

\* every track without a token has a record that passes validateTrackInfo
Encodable(tracks) ==
    \A i \in 1..Len(tracks) :
        tracks[i].track = <<>> => validateTrackInfo(tracks[i].info) = ""

\* C13: encodePlaylist/createPlaylist with selectedTrack s >= 0 and one track
\* or more returns, when it returns, a playlist whose selectedTrack is
\* min(s, trackCount - 1) for the trackCount of the returned playlist; and it
\* does return when the name is non-empty and the records of the tracks to
\* encode are valid
C13_SelectedTrackClamped ==
    ( /\ EncodingPlaylist
      /\ NonNegative(GivenSelectedTrack)
      /\ Len(GivenTracks) > 0 ) =>
        /\ ret.status = "return" =>
              /\ Len(ret.playlist.tracks) > 0
              /\ ret.playlist.info.selectedTrack =
                    Num(Min(GivenSelectedTrack.n, Len(ret.playlist.tracks) - 1))
        /\ (GivenName # "" /\ Encodable(GivenTracks)) => ret.status = "return"

C13_Witness ==
    /\ call.op = "createPlaylist"
    /\ Len(call.trackInfos) = 2
    /\ call.selectedTrack = Num(MaxPlaylistTracks + 2)
    /\ ret.status = "return"
    /\ Len(ret.playlist.tracks) = 2
    /\ ret.playlist.info.selectedTrack = Num(1)

\* the tokens of a track sequence
Tokens(tracks) == [i \in 1..Len(tracks) |-> tracks[i].track]

\* how many of n tracks a playlist encode keeps under the maxTracks option
Capped(n) ==
    IF playlistEncoder.options.maxTracks > 0
    THEN Min(n, playlistEncoder.options.maxTracks)
    ELSE n

\* returned holds the first tracks of given, one for one: a track with a
\* token as it is, a track without one with the token of its record
FirstOf(given, returned) ==
    /\ Len(returned) <= Len(given)
    /\ \A i \in 1..Len(returned) :
          /\ returned[i].info = given[i].info
          /\ returned[i].track =
                IF given[i].track # <<>> THEN given[i].track
                ELSE encodeTrack(playlistEncoder.trackEncoder, given[i].info).track

\* a selectedTrack that validatePlaylistInfo lets pass
PassesValidation(selectedTrack) ==
    selectedTrack.t = "number" /\ (selectedTrack.s = "NaN" \/ selectedTrack.n >= 0)

\* the call just made merged the chunks splitPlaylist returned for
\* call.playlist and call.chunkSize
MergingOwnChunks == call.op = "mergePlaylists" /\ call.from = "splitPlaylist"

SplitDone == call.op = "splitPlaylist" /\ ret.status \in {"return", "throw"}

\* every track carries its token
AllEncoded(tracks) == \A i \in 1..Len(tracks) : tracks[i].track # <<>>

\* a playlist as the encoders return it: one track or more, each with its
\* token, and a selectedTrack >= 0
WellFormedPlaylist(playlist) ==
    /\ Len(playlist.tracks) >= 1
    /\ AllEncoded(playlist.tracks)
    /\ NonNegative(playlist.info.selectedTrack)

RECURSIVE Concatenation(_, _)
\* the tracks of playlists[k], playlists[k + 1], ... one after the other
Concatenation(playlists, k) ==
    IF k > Len(playlists) THEN <<>>
    ELSE playlists[k].tracks \o Concatenation(playlists, k + 1)

Merging == call.op = "mergePlaylists"

C16_MergeSelectsFirst ==
    ( /\ Merging /\ ret.status = "return"
      /\ Len(call.playlists) >= 1
      /\ call.playlists[1].info.selectedTrack.s # "NaN" ) =>
        /\ ret.playlist.info.selectedTrack =
              Num(Min(call.playlists[1].info.selectedTrack.n,
                      Len(ret.playlist.tracks) - 1))
        /\ \A k \in 2..Len(call.playlists), other \in SelectedTracks :
              mergePlaylists(playlistEncoder,
                             [call.playlists EXCEPT ![k].info.selectedTrack = other],
                             call.newName) = ret

C16_Witness ==
    /\ Merging /\ call.from = "given"
    /\ Len(call.playlists) = 2
    /\ call.playlists[1].info.selectedTrack = Num(MaxPlaylistTracks + 2)
    /\ call.playlists[2].info.selectedTrack = Num(0)
    /\ ret.status = "return"
    /\ Len(ret.playlist.tracks) = 3
    /\ ret.playlist.info.selectedTrack = Num(2)

\* splitPlaylist has returned its chunks
SplitReturned == call.op = "splitPlaylist" /\ ret.status = "return"

\* the tracks of the playlist at the 0-based positions k * chunkSize up to
\* min(n, (k + 1) * chunkSize) - 1
Positions(tracks, k, chunkSize) ==
    SubSeq(tracks, k * chunkSize + 1, Min(Len(tracks), (k + 1) * chunkSize))

C18_ChunkSelectedKept ==
    ( /\ SplitReturned /\ call.chunkSize >= 1
      /\ NonNegative(call.playlist.info.selectedTrack)
      /\ call.playlist.info.selectedTrack.n < Len(call.playlist.tracks) ) =>
        \A k \in 1..Len(ret.chunks) :
            ret.chunks[k].info.selectedTrack =
                IF k = 1 THEN call.playlist.info.selectedTrack ELSE Num(0)

\* C18 amended: for chunkSize >= 1 and a selectedTrack s that is a number,
\* chunk 0 has selectedTrack min(s, c - 1) for the c tracks of chunk 0, which
\* is s when s < c, and every later chunk has 0
C18_ChunkSelectedClamped ==
    ( /\ SplitReturned /\ call.chunkSize >= 1
      /\ call.playlist.info.selectedTrack.s # "NaN" ) =>
        \A k \in 1..Len(ret.chunks) :
            ret.chunks[k].info.selectedTrack =
                IF k = 1
                THEN Num(Min(call.playlist.info.selectedTrack.n,
                             Len(ret.chunks[1].tracks) - 1))
                ELSE Num(0)

C18_Witness ==
    /\ SplitReturned
    /\ Len(call.playlist.tracks) = 3 /\ call.chunkSize = 1
    /\ call.playlist.info.selectedTrack = Num(1)
    /\ Len(ret.chunks) = 3
    /\ ret.chunks[1].info.selectedTrack = Num(0)
    /\ ret.chunks[2].info.selectedTrack = Num(0)

\* C19 as stated: splitPlaylist terminates under every configuration: it
\* collects no chunk without tracks and no more chunks than the playlist has
\* tracks, and for chunkSize <= 0 on a playlist with tracks it ends with an
\* error, not with chunks
C19_SplitTerminates ==
    (call.op = "splitPlaylist" /\ ret.status \in {"running", "return"}) =>
        /\ \A k \in 1..Len(ret.chunks) : ret.chunks[k].tracks # <<>>
        /\ Len(ret.chunks) <= Len(call.playlist.tracks)
        /\ (call.chunkSize <= 0 /\ Len(call.playlist.tracks) >= 1) => ret.status # "return"

\* the first tracks of a sequence
FirstTracks(tracks, n) == SubSeq(tracks, 1, n)

\* C20: encodePlaylist (and createPlaylist) given n tracks returns, when it
\* returns, the first min(n, maxTracks) of them in order for maxTracks > 0 and
\* all n for maxTracks = 0; it throws only with validation on, for an empty
\* name, a selectedTrack that is not a number or is negative, no track at
\* all, or a kept track whose record is invalid: never for n > maxTracks,
\* which with validation on gets the console warning
C20_MaxTracksCap ==
    EncodingPlaylist =>
        LET n == Len(GivenTracks)
        IN  /\ ret.status = "return" =>
                  /\ Len(ret.playlist.tracks) = Capped(n)
                  /\ Capped(n) = IF playlistEncoder.options.maxTracks = 0 THEN n
                                 ELSE Min(n, playlistEncoder.options.maxTracks)
                  /\ FirstOf(GivenTracks, ret.playlist.tracks)
                  /\ ret.warned <=>
                        /\ playlistEncoder.options.validate
                        /\ playlistEncoder.options.maxTracks > 0
                        /\ n > playlistEncoder.options.maxTracks
            /\ ret.status = "throw" <=>
                  /\ playlistEncoder.options.validate
                  /\ \/ GivenName = ""
                     \/ ~PassesValidation(GivenSelectedTrack)
                     \/ n = 0
                     \/ ~Encodable(FirstTracks(GivenTracks, Capped(n)))

C20_Witness ==
    /\ call.op = "encodePlaylist"
    /\ Len(call.tracks) = 3
    /\ playlistEncoder.options.maxTracks = 2
    /\ ret.status = "return"
    /\ ret.warned
    /\ Len(ret.playlist.tracks) = 2
    /\ Tokens(ret.playlist.tracks) = Tokens(SubSeq(call.tracks, 1, 2))

(***************************************************************************)
(* Validation of a playlist                                                *)
(***************************************************************************)
\* the first of the three playlist checks that fails, in the order name,
\* selectedTrack, tracks: "" when none does. A selectedTrack fails when it is
\* not of type number or is a number below 0 (NaN is of type number and is
\* not below 0)
FirstPlaylistError(name, selectedTrack, tracks) ==
    IF name = "" THEN "Playlist name is required"
    ELSE IF selectedTrack.t # "number" THEN "Selected track must be a non-negative number"
    ELSE IF selectedTrack.s # "NaN" /\ selectedTrack.n < 0
    THEN "Selected track must be a non-negative number"
    ELSE IF Len(tracks) = 0 THEN "Playlist must contain at least one track"
    ELSE ""

\* C21: with validation enabled, encodePlaylist (and createPlaylist, which
\* calls it) throws and returns no playlist when the name is empty, when the
\* selectedTrack is not of type number or is a negative number, or when there
\* is no track; when several of these hold the Error is that of the first in
\* the order name, selectedTrack, tracks
C21_PlaylistValidation ==
    ( /\ EncodingPlaylist
      /\ playlistEncoder.options.validate
      /\ FirstPlaylistError(GivenName, GivenSelectedTrack, GivenTracks) # "" ) =>
        /\ ret.status = "throw"
        /\ ret.error = FirstPlaylistError(GivenName, GivenSelectedTrack, GivenTracks)
        /\ "playlist" \notin DOMAIN ret

\* an empty name and no track at once: the Error is the one of the name
C21_Witness ==
    /\ call.op = "encodePlaylist"
    /\ playlistEncoder.options.validate
    /\ call.playlistInfo.name = ""
    /\ Len(call.tracks) = 0
    /\ ret.status = "throw"
    /\ ret.error = "Playlist name is required"

(***************************************************************************)
(* What encodeTrack hands back                                             *)
(***************************************************************************)
\* C22: encodeTrack returns, next to the token, the record it was given with
\* every property as the caller set it: the record's own sourceName (empty
\* when it is empty, never the configured one) and its artworkUrl and isrc
\* even when the token leaves them out
C22_InfoIsCallersRecord ==
    (call.op = "encodeTrack" /\ ret.status = "return") =>
        /\ ret.info = call.info
        /\ DOMAIN ret.info = DOMAIN call.info
        /\ \A k \in DOMAIN call.info : ret.info[k] = call.info[k]
        /\ ret.track = encodeTrackData(trackData(call.encoder.options, call.info))

\* a record with an artworkUrl and an empty sourceName, encoded without
\* artwork: the token carries the configured source and no artworkUrl, the
\* returned info the record's own
C22_Witness ==
    /\ call.op = "encodeTrack"
    /\ ret.status = "return"
    /\ ~call.encoder.options.includeArtwork
    /\ NonEmpty(call.info, "artworkUrl")
    /\ call.info.sourceName = Str("")
    /\ ret.info.sourceName = Str("")
    /\ ret.info.artworkUrl = call.info.artworkUrl
    /\ LET token == decodeTrack(ret.track).value.o
       IN  /\ "artworkUrl" \notin DOMAIN token
           /\ token.sourceName = Str(call.encoder.options.sourceName)

(***************************************************************************)
(* Options are read at call time                                           *)
(***************************************************************************)
TrackOptionKeys == {"includeArtwork", "includeISRC", "sourceName", "validate"}

\* the value of each option when the constructor is not given it
DefaultTrackOptions ==
    [includeArtwork |-> TRUE, includeISRC |-> TRUE, sourceName |-> "unknown",
     validate |-> TRUE]

\* the options object of the track encoder holds, for every option, the value
\* named or else the value before
Updated(before, after, named) ==
    \A k \in TrackOptionKeys :
        after[k] = IF k \in DOMAIN named THEN named[k] ELSE before[k]

InRange(playlist) ==
    /\ NonNegative(playlist.info.selectedTrack)
    /\ playlist.info.selectedTrack.n < Len(playlist.tracks)

\* the selectedTrack mergePlaylists hands to encodePlaylist
MergedSelectedTrack(playlists) ==
    IF Len(playlists) > 0 THEN playlists[1].info.selectedTrack ELSE Num(0)

\* C27 as stated: every playlist returned by encodePlaylist, createPlaylist,
\* mergePlaylists or splitPlaylist, under any configuration, has
\* 0 <= selectedTrack < tracks.length (taken here for calls that are given a
\* selectedTrack >= 0 only)
C27_SelectedTrackValid ==
    /\ (EncodingPlaylist /\ ret.status = "return" /\ NonNegative(GivenSelectedTrack))
          => InRange(ret.playlist)
    /\ ( /\ Merging /\ ret.status = "return"
         /\ NonNegative(MergedSelectedTrack(call.playlists)) ) => InRange(ret.playlist)
    /\ (SplitReturned /\ NonNegative(call.playlist.info.selectedTrack))
          => \A k \in 1..Len(ret.chunks) : InRange(ret.chunks[k])

\* C27 amended: a playlist returned from the selectedTrack s (of the
\* playlistInfo; of the first playlist for mergePlaylists; of the playlist
\* for chunk 0 of splitPlaylist and 0 for every later chunk) has
\* 0 <= selectedTrack < tracks.length exactly when s, as a number, is >= 0
\* (not NaN) and the returned playlist has one track or more. With validation
\* on that is every returned playlist but those given a NaN selectedTrack
C27_SelectedTrackInRange ==
    /\ (EncodingPlaylist /\ ret.status = "return") =>
          /\ InRange(ret.playlist) <=>
                /\ NonNegative(ToNumber(GivenSelectedTrack))
                /\ Len(ret.playlist.tracks) >= 1
          /\ (playlistEncoder.options.validate /\ GivenSelectedTrack # NaN)
                => InRange(ret.playlist)
    /\ (Merging /\ ret.status = "return") =>
          /\ InRange(ret.playlist) <=>
                /\ NonNegative(ToNumber(MergedSelectedTrack(call.playlists)))
                /\ Len(ret.playlist.tracks) >= 1
          /\ (playlistEncoder.options.validate
                /\ MergedSelectedTrack(call.playlists) # NaN)
                => InRange(ret.playlist)
    /\ SplitReturned =>
          \A k \in 1..Len(ret.chunks) :
              /\ InRange(ret.chunks[k]) <=>
                    /\ k = 1 => NonNegative(ToNumber(call.playlist.info.selectedTrack))
                    /\ Len(ret.chunks[k].tracks) >= 1
              /\ (playlistEncoder.options.validate
                    /\ call.playlist.info.selectedTrack # NaN)
                    => InRange(ret.chunks[k])

\* createPlaylist of two tracks with selectedTrack 5 and validation on: the
\* playlist selects its last track
C27_Witness ==
    /\ call.op = "createPlaylist"
    /\ playlistEncoder.options.validate
    /\ call.selectedTrack = Num(MaxPlaylistTracks + 2)
    /\ ret.status = "return"
    /\ Len(ret.playlist.tracks) >= 2
    /\ ret.playlist.info.selectedTrack = Num(Len(ret.playlist.tracks) - 1)
    /\ InRange(ret.playlist)

(***************************************************************************)
(* Tracks with an invalid record                                           *)
(***************************************************************************)
\* the places of the tracks without a token whose record does not pass
\* validateTrackInfo
InvalidToEncode(tracks) ==
    {i \in 1..Len(tracks) :
        tracks[i].track = <<>> /\ validateTrackInfo(tracks[i].info) # ""}

\* the least of a non-empty set of places
Least(places) == CHOOSE i \in places : \A j \in places : i <= j

\* C28 as stated: with validation on, if any track without a token has an
\* invalid record, encodePlaylist throws the validation Error of that track
\* and returns no playlist (taken here for calls whose name, selectedTrack
\* and track count pass the playlist checks)
C28_InvalidTrackThrows ==
    ( /\ EncodingPlaylist
      /\ playlistEncoder.options.validate
      /\ FirstPlaylistError(GivenName, GivenSelectedTrack, GivenTracks) = ""
      /\ InvalidToEncode(GivenTracks) # {} ) =>
        /\ ret.status = "throw"
        /\ \E i \in InvalidToEncode(GivenTracks) :
              ret.error = validateTrackInfo(GivenTracks[i].info)

\* C28 amended: with validation on and the playlist checks passed, if any of
\* the tracks kept under maxTracks (the first maxTracks ones, all for
\* maxTracks 0) has no token and an invalid record, encodePlaylist throws the
\* validation Error of the first such track and returns no playlist; if none
\* has, it returns, and every kept track with a token is in the result as it
\* was given, whatever its record holds. A track beyond maxTracks is dropped
\* without being validated
C28_KeptInvalidTrackThrows ==
    ( /\ EncodingPlaylist
      /\ playlistEncoder.options.validate
      /\ FirstPlaylistError(GivenName, GivenSelectedTrack, GivenTracks) = "" ) =>
        LET kept == FirstTracks(GivenTracks, Capped(Len(GivenTracks)))
        IN  IF InvalidToEncode(kept) # {}
            THEN /\ ret.status = "throw"
                 /\ ret.error = validateTrackInfo(kept[Least(InvalidToEncode(kept))].info)
                 /\ "playlist" \notin DOMAIN ret
            ELSE /\ ret.status = "return"
                 /\ Len(ret.playlist.tracks) = Len(kept)
                 /\ \A i \in 1..Len(kept) :
                       kept[i].track # <<>> => ret.playlist.tracks[i] = kept[i]

\* a track with a token and a record without title, then a track to encode
\* whose record has no identifier: the Error is the one of the second track
C28_Witness ==
    /\ call.op = "encodePlaylist"
    /\ playlistEncoder.options.validate
    /\ Len(call.tracks) = 2
    /\ call.tracks[1].track # <<>>
    /\ validateTrackInfo(call.tracks[1].info) # ""
    /\ call.tracks[2].track = <<>>
    /\ ret.status = "throw"
    /\ ret.error = validateTrackInfo(call.tracks[2].info)

(***************************************************************************)
(* Encoding a returned playlist again                                      *)
(***************************************************************************)
\* the call just made was encodePlaylist(p.info, p.tracks) for the playlist
\* p = call.first that encodePlaylist or createPlaylist had returned
Reencoding == call.op = "encodePlaylist" /\ "first" \in DOMAIN call

\* C29: for a playlist p that encodePlaylist (or createPlaylist) returned,
\* encodePlaylist(p.info, p.tracks) under the same configuration returns, and
\* returns a playlist with the name, the selectedTrack and the tracks (tokens
\* and records, in order) of p
C29_ReencodeIsIdentity ==
    Reencoding =>
        /\ ret.status = "return"
        /\ ret.playlist.info.name = call.first.info.name
        /\ ret.playlist.info.selectedTrack = call.first.info.selectedTrack
        /\ ret.playlist.tracks = call.first.tracks

\* a playlist of two tracks, capped from three with a clamped selectedTrack,
\* encoded again
C29_Witness ==
    /\ Reencoding
    /\ playlistEncoder.options.maxTracks = 2
    /\ Len(call.first.tracks) = 2
    /\ call.first.info.selectedTrack = Num(1)
    /\ ret.status = "return"
    /\ ret.playlist.tracks = call.first.tracks
    /\ ret.playlist.info = call.first.info

(***************************************************************************)
(* validateTrackInfo of utils and the validation of encodeTrack            *)
(***************************************************************************)
\* what encodeTrack of an encoder with validation on does with the record
Validating(trackInfo) == encodeTrack(NewTrackEncoder([validate |-> TRUE]), trackInfo)

\* C30: whenever encodeTrack with validation on throws for a record,
\* validateTrackInfo of utils returns a non-empty array whose first entry is
\* the message of that Error; and when it returns an empty array encodeTrack
\* with validation on returns a token
C30_UtilityAgrees ==
    call.op = "validateTrackInfo" =>
        /\ ret.status = "return"
        /\ Validating(call.info).status = "throw" =>
              /\ ret.errors # <<>>
              /\ ret.errors[1] = Validating(call.info).error
        /\ ret.errors = <<>> => Validating(call.info).status = "return"

\* a record without a title and without a uri: encodeTrack throws for the
\* title, and the array starts with the title and goes on with the uri
C30_Witness ==
    /\ call.op = "validateTrackInfo"
    /\ Validating(call.info).status = "throw"
    /\ Validating(call.info).error = "Track title is required"
    /\ ret.errors = <<"Track title is required", "Track URI is required",
                      "Track URI must be a valid URL">>

(***************************************************************************)
(* The playlists of the Discord methods                                    *)
(***************************************************************************)
\* the call just made was one of the three Discord playlist methods
DiscordPlaylistCall ==
    call.op \in {"encodeDiscordPlaylist", "createDiscordYouTubePlaylist",
                 "createDiscordSpotifyPlaylist"}

\* C25: every track of a playlist returned by encodeDiscordPlaylist,
\* createDiscordYouTubePlaylist or createDiscordSpotifyPlaylist carries a
\* non-empty token, the one the playlist encoder's encodeTrack gives for the
\* record of the track without its requester, guildId and channelId
C25_DiscordTracksCarryTokens ==
    (DiscordPlaylistCall /\ ret.status = "return") =>
        \A i \in 1..Len(ret.playlist.tracks) :
            /\ ret.playlist.tracks[i].track # <<>>
            /\ (call.op # "encodeDiscordPlaylist" \/ call.tracks[i].track = <<>>) =>
                  ret.playlist.tracks[i].track =
                     encodeTrack(discordEncoder.playlistEncoder.trackEncoder,
                                 Bare(ret.playlist.tracks[i].info)).track

\* C26: a playlist returned by encodeDiscordPlaylist has as many tracks as
\* the playlist encodePlaylist returns for the same playlistInfo and tracks
\* (the maxTracks cap applied), and its selectedTrack is an index into its
\* own tracks (taken here for calls given one track or more, each with its
\* token, and a selectedTrack >= 0)
C26_DiscordTrackCount ==
    ( /\ call.op = "encodeDiscordPlaylist"
      /\ ret.status = "return"
      /\ Len(call.tracks) >= 1
      /\ AllEncoded(call.tracks)
      /\ NonNegative(call.playlistInfo.selectedTrack) ) =>
        LET encoded == encodePlaylist(discordEncoder.playlistEncoder,
                                      call.playlistInfo, call.tracks)
        IN  /\ encoded.status = "return"
            /\ Len(ret.playlist.tracks) = Len(encoded.playlist.tracks)
            /\ InRange(ret.playlist)

(***************************************************************************)
(* mergePlaylists and splitPlaylist leave their inputs alone               *)
(***************************************************************************)
\* the call just made was mergePlaylists or splitPlaylist, and is over
MergedOrSplit ==
    call.op \in {"mergePlaylists", "splitPlaylist"} /\ ret.status \in {"return", "throw"}

\* C24: when mergePlaylists or splitPlaylist has returned or thrown, every
\* object the caller held before the call is as it was: each input playlist
\* has the same name, selectedTrack, pluginInfo and tracks array, and each
\* tracks array holds the same tracks; and every playlist returned is an
\* object created by the call whose tracks array was created by the call too,
\* so it is the tracks array of no input
C24_InputsNotMutated ==
    MergedOrSplit =>
        /\ Len(ret.heap) >= Len(call.heap)
        /\ \A r \in 1..Len(call.heap) : ret.heap[r] = call.heap[r]
        /\ \A k \in 1..Len(ret.refs) :
              /\ ret.refs[k] > Len(call.heap)
              /\ ret.heap[ret.refs[k]].kind = "playlist"
              /\ ret.heap[ret.refs[k]].tracks > Len(call.heap)
              /\ \A p \in 1..Len(call.playlists) :
                    ret.heap[ret.refs[k]].tracks # call.heap[call.playlists[p]].tracks
              /\ \A j \in 1..Len(ret.refs) :
                    j # k => ret.heap[ret.refs[k]].tracks # ret.heap[ret.refs[j]].tracks

\* two playlists of one and two tracks merged without a cap: the merged
\* playlist holds the three tracks in an array of its own, the inputs hold
\* theirs
C24_Witness ==
    /\ call.op = "mergePlaylists"
    /\ call.playlists = <<2, 4>>
    /\ Len(call.heap[1].items) + Len(call.heap[3].items) = 3
    /\ ret.status = "return"
    /\ Len(ret.refs) = 1
    /\ Len(ret.heap[ret.heap[ret.refs[1]].tracks].items) = 3
    /\ ret.heap[1] = call.heap[1]
    /\ ret.heap[3] = call.heap[3]

====
